---- MODULE Spec2Model ----
(***************************************************************************)
(* A model of the type checker's assignability check and expression        *)
(* inference:                                                              *)
(*   typescript/checker/src/ty/assign.rs        try_assign over Type       *)
(*   typescript/checker/src/analyzer/util.rs    try_assign over TsType     *)
(*   typescript/checker/src/analyzer/expr.rs    Analyzer::type_of          *)
(*   typescript/checker/src/util/mod.rs         EqIgnoreSpan & co.         *)
(* and of the statement lists of the dead-code pass:                       *)
(*   ecmascript/transforms/src/optimization/simplify/dce/mod.rs            *)
(*                                                                         *)
(* Types are records with a "tag" naming the variant.  An Option<T> is a   *)
(* sequence of length 0 (None) or 1 (Some).  A result is a record whose    *)
(* kind is "Ok", "Err" (with the error value) or "Panic" (the process      *)
(* aborted in unimplemented!/unreachable!).  The model holds types in      *)
(* their normalized form, so Type::normalize is not a step of its own.     *)
(***************************************************************************)
EXTENDS Integers, Sequences, FiniteSets, TLC

VARIABLES op, to, rhs, expr, scope, stmts, res

vars == <<op, to, rhs, expr, scope, stmts, res>>

(***************************************************************************)
(* Spans.  DUMMY_SP is the span the span-removing folds write.             *)
(***************************************************************************)
DUMMY_SP == 0

\* Longest branch / element / member list the type universe holds.
MaxLen == 2

\* The longest statement list handed to the dead-code pass.
MaxStmts == 2

None == <<>>

Some(x) == <<x>>

(***************************************************************************)
(* Constructors of Type (ty/mod.rs is not part of the sources; the         *)
(* variants and fields are the ones the patterns of ty/assign.rs name).    *)
(***************************************************************************)
Keyword(k, sp) == [tag |-> "Keyword", span |-> sp, kind |-> k]

Lit(k, v, sp) == [tag |-> "Lit", span |-> sp, lit |-> [kind |-> k, value |-> v, span |-> sp]]

Array(t, sp) == [tag |-> "Array", span |-> sp, elem_type |-> t]

Tuple(ts, sp) == [tag |-> "Tuple", span |-> sp, types |-> ts]

Union(ts, sp) == [tag |-> "Union", span |-> sp, types |-> ts]

Intersection(ts, sp) == [tag |-> "Intersection", span |-> sp, types |-> ts]

TypeLit(ms, sp) == [tag |-> "TypeLit", span |-> sp, members |-> ms]

Interface(n, ms, sp) ==
    [tag |-> "Interface", span |-> sp, name |-> [tag |-> "Ident", sym |-> n, span |-> sp],
     body |-> ms]

Function(tps, ps, ret, sp) ==
    [tag |-> "Function", span |-> sp, type_params |-> tps, params |-> ps, ret_ty |-> ret]

Constructor(tps, ps, ret, sp) ==
    [tag |-> "Constructor", span |-> sp, type_params |-> tps, params |-> ps, ret_ty |-> ret]

Class(n, sp) == [tag |-> "Class", span |-> sp, name |-> [tag |-> "Ident", sym |-> n, span |-> sp]]

Enum(n, sp) == [tag |-> "Enum", span |-> sp, id |-> [tag |-> "Ident", sym |-> n, span |-> sp]]

EnumVariant(e, n, sp) == [tag |-> "EnumVariant", span |-> sp, enum_name |-> e, name |-> n]

Param(n, c, sp) == [tag |-> "Param", span |-> sp, name |-> n, constraint |-> c]

This(sp) == [tag |-> "This", span |-> sp]

\* Type::Simple: a syntactic TsType kept as it is (a type reference, a type
\* predicate, ...).
Simple(k, n, sp) == [tag |-> "Simple", span |-> sp, ty |-> k, name |-> n]

\* TsType::TsIndexedAccessType, the type of a member expression.
IndexedAccess(o, i, sp) ==
    [tag |-> "IndexedAccess", span |-> sp, obj_type |-> o, index_type |-> i]

\* An identifier (swc_ecma_ast::Ident) and a string key.
Ident(s, sp) == [tag |-> "Ident", sym |-> s, span |-> sp]

StrKey(s, sp) == [tag |-> "Str", value |-> s, span |-> sp]

\* Members of a type literal (TypeElement).
Property(k, ann, sp) == [tag |-> "Property", span |-> sp, key |-> k, type_ann |-> ann]

Method(k, ps, ret, sp) ==
    [tag |-> "Method", span |-> sp, key |-> k, type_params |-> <<>>, params |-> ps,
     ret |-> ret]

\* A call or construct signature with its Option of type parameters.
Signature(tag, tps, ps, ret, sp) ==
    [tag |-> tag, span |-> sp, type_params |-> tps, params |-> ps, ret |-> ret]

CallSig(ps, ret, sp) == Signature("Call", <<>>, ps, ret, sp)

ConstructSig(ps, ret, sp) == Signature("Construct", <<>>, ps, ret, sp)

any(sp) == Keyword("any", sp)

undefined(sp) == Keyword("undefined", sp)

(***************************************************************************)
(* Results and errors (errors.rs is not part of the sources; the kinds and *)
(* fields are the ones the constructions in assign.rs and expr.rs name).   *)
(***************************************************************************)
Ok == [kind |-> "Ok"]

OkT(t) == [kind |-> "Ok", ty |-> t]

Err(e) == [kind |-> "Err", err |-> e]

Panic(m) == [kind |-> "Panic", msg |-> m]

AssignFailed(sp, l, r, c) ==
    [kind |-> "AssignFailed", span |-> sp, left |-> l, right |-> r, cause |-> c]

UnionError(sp, es) == [kind |-> "UnionError", span |-> sp, errors |-> es]

IntersectionError(sp, e) == [kind |-> "IntersectionError", span |-> sp, error |-> e]

MissingFields(sp, fs) == [kind |-> "MissingFields", span |-> sp, fields |-> fs]

CannotAssingToThis(sp) == [kind |-> "CannotAssingToThis", span |-> sp]

UndefinedSymbol(sp) == [kind |-> "UndefinedSymbol", span |-> sp]

NoCallSignature(sp) == [kind |-> "NoCallSignature", span |-> sp]

NoNewSignature(sp) == [kind |-> "NoNewSignature", span |-> sp]

\* expected is the range lo..hi of the source, kept as its two ends.
WrongTypeParams(sp, lo, hi, n) ==
    [kind |-> "WrongTypeParams", span |-> sp, expected |-> <<lo, hi>>, actual |-> n]

WrongParams(sp, lo, hi, n) ==
    [kind |-> "WrongParams", span |-> sp, expected |-> <<lo, hi>>, actual |-> n]

IsOk(r) == r.kind = "Ok"

IsErr(r) == r.kind = "Err"

IsPanic(r) == r.kind = "Panic"

(***************************************************************************)
(* util/mod.rs: structural equality through a fold.  SpanRemover writes    *)
(* DUMMY_SP over every span; SpanAndNameRemover also writes the empty      *)
(* symbol over every Ident (the name of a type reference, a TsEntityName,  *)
(* keeps its symbol, and so do the JsWord names of Param and EnumVariant). *)
(***************************************************************************)
RECURSIVE Fold(_, _)

FoldAll(xs, names) == [i \in DOMAIN xs |-> Fold(xs[i], names)]

Fold(x, names) ==
    CASE x.tag = "Ident" ->
            [x EXCEPT !.span = DUMMY_SP, !.sym = IF names THEN "" ELSE @]
      [] x.tag = "Str" -> [x EXCEPT !.span = DUMMY_SP]
      [] x.tag = "Lit" -> [x EXCEPT !.span = DUMMY_SP, !.lit.span = DUMMY_SP]
      [] x.tag = "Array" ->
            [x EXCEPT !.span = DUMMY_SP, !.elem_type = Fold(@, names)]
      [] x.tag = "IndexedAccess" ->
            [x EXCEPT !.span = DUMMY_SP, !.obj_type = Fold(@, names),
                      !.index_type = Fold(@, names)]
      [] x.tag \in {"Tuple", "Union", "Intersection"} ->
            [x EXCEPT !.span = DUMMY_SP, !.types = FoldAll(@, names)]
      [] x.tag = "TypeLit" ->
            [x EXCEPT !.span = DUMMY_SP, !.members = FoldAll(@, names)]
      [] x.tag = "Interface" ->
            [x EXCEPT !.span = DUMMY_SP, !.name = Fold(@, names), !.body = FoldAll(@, names)]
      [] x.tag \in {"Function", "Constructor"} ->
            [x EXCEPT !.span = DUMMY_SP,
                      !.type_params = [i \in DOMAIN @ |-> FoldAll(@[i], names)],
                      !.params = FoldAll(@, names),
                      !.ret_ty = Fold(@, names)]
      [] x.tag = "Class" -> [x EXCEPT !.span = DUMMY_SP, !.name = Fold(@, names)]
      [] x.tag = "Enum" -> [x EXCEPT !.span = DUMMY_SP, !.id = Fold(@, names)]
      [] x.tag = "Param" ->
            [x EXCEPT !.span = DUMMY_SP, !.constraint = FoldAll(@, names)]
      [] x.tag = "Property" ->
            [x EXCEPT !.span = DUMMY_SP, !.key = Fold(@, names),
                      !.type_ann = FoldAll(@, names)]
      [] x.tag = "Method" ->
            [x EXCEPT !.span = DUMMY_SP, !.key = Fold(@, names),
                      !.type_params = [i \in DOMAIN @ |-> FoldAll(@[i], names)],
                      !.params = FoldAll(@, names),
                      !.ret = FoldAll(@, names)]
      [] x.tag \in {"Call", "Construct"} ->
            [x EXCEPT !.span = DUMMY_SP,
                      !.type_params = [i \in DOMAIN @ |-> FoldAll(@[i], names)],
                      !.params = FoldAll(@, names),
                      !.ret = FoldAll(@, names)]
      [] OTHER -> [x EXCEPT !.span = DUMMY_SP]

SpanRemover(x) == Fold(x, FALSE)

SpanAndNameRemover(x) == Fold(x, TRUE)

eq_ignore_span(l, r) == SpanRemover(l) = SpanRemover(r)

eq_ignore_name_and_span(l, r) == SpanAndNameRemover(l) = SpanAndNameRemover(r)

\* TsLit's eq_ignore_span: the literal's kind and value, not its span.
lit_eq_ignore_span(l, r) == [l EXCEPT !.span = DUMMY_SP] = [r EXCEPT !.span = DUMMY_SP]

is_keyword(t, k) == t.tag = "Keyword" /\ t.kind = k

(***************************************************************************)
(* ty/assign.rs: try_assign(to, rhs, span).  Each arm of its matches is an *)
(* operator; NoDecision stands for an arm that ends without returning, so  *)
(* that control reaches the fallback at the end of the function.           *)
(***************************************************************************)
NoDecision == [kind |-> "NoDecision"]

Missing == [kind |-> "Missing"]

fail(t, r, span) == Err(AssignFailed(span, t, r, <<>>))

\* An iterator chain that is collected evaluates every element: a panic in
\* any of them aborts the whole call.
PanicIn(rs) == \E i \in DOMAIN rs : IsPanic(rs[i])

FirstPanic(rs) ==
    rs[CHOOSE i \in DOMAIN rs : IsPanic(rs[i]) /\ \A j \in 1..(i - 1) : ~IsPanic(rs[j])]

ErrorsOf(rs) == LET es == SelectSeq(rs, IsErr) IN [i \in DOMAIN es |-> es[i].err]

FirstErr(rs) ==
    rs[CHOOSE i \in DOMAIN rs : IsErr(rs[i]) /\ \A j \in 1..(i - 1) : ~IsErr(rs[j])]

RECURSIVE try_assign(_, _, _)
RECURSIVE assign_each(_, _, _, _)
RECURSIVE assign_zip(_, _, _, _)
RECURSIVE scan_rhs_members(_, _, _, _)
RECURSIVE scan_members(_, _, _, _, _)

\* A variant of rhs_union that is content with one assignable branch.
rhs_union_some(t, r, span) ==
    LET rs == [i \in DOMAIN r.types |-> try_assign(t, r.types[i], r.span)]
    IN  IF PanicIn(rs) THEN FirstPanic(rs)
        ELSE IF \E i \in DOMAIN rs : IsOk(rs[i]) THEN Ok
        ELSE Err(UnionError(r.span, ErrorsOf(rs)))

\* lines 154-168: rhs is a union: every branch must be assignable.  The
\* pattern binds span to the union's own span.
rhs_union(t, r, span) ==
    LET rs == [i \in DOMAIN r.types |-> try_assign(t, r.types[i], r.span)]
    IN  IF PanicIn(rs) THEN FirstPanic(rs)
        ELSE IF ErrorsOf(rs) = <<>> THEN Ok
        ELSE Err(UnionError(r.span, ErrorsOf(rs)))

\* A variant of rhs_unknown that accepts every target.
rhs_unknown_lenient(t, r, span) == Ok

\* lines 176-187: rhs is unknown.
rhs_unknown(t, r, span) ==
    IF is_keyword(t, "any") \/ is_keyword(t, "undefined") THEN Ok ELSE fail(t, r, span)

\* rhs_param without the recursion on the constraint.
rhs_param_unconstrained(t, r, span) ==
    IF t.tag = "Param" /\ t.name = r.name THEN Ok
    ELSE IF t.tag = "TypeLit" /\ t.members = <<>> THEN Ok
    ELSE fail(t, r, span)

\* lines 189-222: rhs is a type parameter.
rhs_param(t, r, span) ==
    IF t.tag = "Param" /\ t.name = r.name THEN Ok
    ELSE IF r.constraint # None THEN try_assign(t, r.constraint[1], span)
    ELSE IF t.tag = "TypeLit" /\ t.members = <<>> THEN Ok
    ELSE fail(t, r, span)

\* lines 245-248: `for ty in types { try_assign(elem_type, ty, span)?; }`
assign_each(elem_type, types, i, span) ==
    IF i > Len(types) THEN Ok
    ELSE LET r == try_assign(elem_type, types[i], span)
         IN  IF IsOk(r) THEN assign_each(elem_type, types, i + 1, span) ELSE r

\* lines 228-251: to is an array.
to_array(t, r, span) ==
    IF r.tag = "Array"
    THEN LET c == try_assign(t.elem_type, r.elem_type, span)
         IN  IF IsErr(c) THEN Err(AssignFailed(span, t, r, <<c.err>>)) ELSE c
    ELSE IF r.tag = "Tuple" THEN assign_each(t.elem_type, r.types, 1, span)
    ELSE fail(t, r, span)

\* A variant of to_union that wants every branch to accept rhs.
to_union_every(t, r, span) ==
    LET vs == [i \in DOMAIN t.types |-> try_assign(t.types[i], r, span)]
    IN  IF PanicIn(vs) THEN FirstPanic(vs)
        ELSE IF \A i \in DOMAIN vs : IsOk(vs[i]) THEN Ok
        ELSE Err(UnionError(span, ErrorsOf(vs)))

\* lines 254-266: to is a union: some branch must accept rhs.
to_union(t, r, span) ==
    LET vs == [i \in DOMAIN t.types |-> try_assign(t.types[i], r, span)]
    IN  IF PanicIn(vs) THEN FirstPanic(vs)
        ELSE IF \E i \in DOMAIN vs : IsOk(vs[i]) THEN Ok
        ELSE Err(UnionError(span, ErrorsOf(vs)))

\* lines 268-285: to is an intersection: every branch must accept rhs; the
\* first error is the one reported.
to_intersection(t, r, span) ==
    LET vs == [i \in DOMAIN t.types |-> try_assign(t.types[i], r, span)]
    IN  IF PanicIn(vs) THEN FirstPanic(vs)
        ELSE IF \E i \in DOMAIN vs : IsErr(vs[i])
        THEN Err(IntersectionError(span, FirstErr(vs).err))
        ELSE Ok

\* lines 287-309: to is the keyword object.
to_object(t, r, span) ==
    IF \/ is_keyword(r, "number")
       \/ is_keyword(r, "string")
       \/ r.tag \in {"Function", "Constructor", "Enum", "Class", "TypeLit"}
    THEN Ok
    ELSE NoDecision

\* lines 312-352: to is another keyword.
to_keyword(t, r, span) ==
    IF r.tag = "Keyword" /\ r.kind = t.kind THEN Ok
    ELSE IF t.kind = "string" /\ r.tag = "Lit" /\ r.lit.kind = "Str" THEN Ok
    ELSE IF t.kind = "number" /\ r.tag = "Lit" /\ r.lit.kind = "Number" THEN Ok
    ELSE IF t.kind = "boolean" /\ r.tag = "Lit" /\ r.lit.kind = "Bool" THEN Ok
    ELSE fail(t, r, span)

\* lines 354-371: to is an enum.
to_enum(t, r, span) ==
    IF r.tag = "EnumVariant" /\ r.enum_name = t.id.sym THEN Ok
    ELSE Err(AssignFailed(span, t, r, <<>>))

\* lines 373-382: to is an enum variant.
to_enum_variant(t, r, span) ==
    IF r.tag = "EnumVariant" /\ t.enum_name = r.enum_name /\ t.name = r.name THEN Ok
    ELSE fail(t, r, span)

\* line 384: to is `this`; the error carries the span of the this type.
to_this(t, r, span) == Err(CannotAssingToThis(t.span))

\* TypeElement::key(): properties and methods have one.
HasKey(m) == m.tag \in {"Property", "Method"}

type_ann_or_any(m, span) == IF m.type_ann = None THEN any(span) ELSE m.type_ann[1]

\* lines 82-110: the inner loop over rhs_members for a keyed member m.  Ok is
\* `continue 'members`; Missing is the loop running out.
scan_rhs_members(m, rms, j, span) ==
    IF j > Len(rms) THEN Missing
    ELSE IF HasKey(rms[j]) /\ rms[j].key = m.key
    THEN IF m.tag = "Property" /\ rms[j].tag = "Property"
         THEN try_assign(type_ann_or_any(m, span), type_ann_or_any(rms[j], span), span)
         ELSE IF m.tag = "Method" /\ rms[j].tag = "Method"
         THEN Panic("assignment: method property in type literal")
         ELSE scan_rhs_members(m, rms, j + 1, span)
    ELSE scan_rhs_members(m, rms, j + 1, span)

\* lines 78-127: the loop over the members of to.
scan_members(ms, rms, i, missing, span) ==
    IF i > Len(ms)
    THEN IF missing = <<>> THEN Ok ELSE Err(MissingFields(span, missing))
    ELSE IF HasKey(ms[i])
    THEN LET r == scan_rhs_members(ms[i], rms, 1, span)
         IN  IF IsOk(r) THEN scan_members(ms, rms, i + 1, missing, span)
             ELSE IF r = Missing
             THEN scan_members(ms, rms, i + 1, Append(missing, ms[i]), span)
             ELSE r
    ELSE IF \E j \in DOMAIN rms : eq_ignore_name_and_span(rms[j], ms[i])
    THEN scan_members(ms, rms, i + 1, missing, span)
    ELSE scan_members(ms, rms, i + 1, Append(missing, ms[i]), span)

\* lines 69-135: the macro handle_type_lit.
handle_type_lit(members, t, r, span) ==
    IF r.tag = "TypeLit" THEN scan_members(members, r.members, 1, <<>>, span)
    ELSE IF r.tag \in {"Tuple", "Array", "Lit"} THEN fail(t, r, span)
    ELSE NoDecision

\* lines 391-402: to is a literal.
to_lit(t, r, span) ==
    IF r.tag = "Lit" /\ lit_eq_ignore_span(t.lit, r.lit) THEN Ok ELSE fail(t, r, span)

\* lines 404-425: to is a function without type parameters.
to_function(t, r, span) ==
    IF r.tag = "Function" /\ r.type_params = None
    THEN try_assign(t.ret_ty, r.ret_ty, span)
    ELSE NoDecision

\* lines 433-454: the zip of the two tuples stops at the shorter one.
assign_zip(ls, rs, i, span) ==
    IF i > Len(ls) \/ i > Len(rs) THEN Ok
    ELSE LET c == try_assign(ls[i], rs[i], span)
         IN  IF IsOk(c) \/ (IsErr(c) /\ is_keyword(rs[i], "undefined"))
             THEN assign_zip(ls, rs, i + 1, span)
             ELSE c

\* lines 427-458: to is a tuple.
to_tuple(t, r, span) ==
    IF r.tag = "Tuple" THEN assign_zip(t.types, r.types, 1, span) ELSE NoDecision

\* lines 460-474: to is a syntactic type.
to_simple(t, r, span) ==
    IF /\ t.ty = "TsTypePredicate"
       /\ (is_keyword(r, "boolean") \/ (r.tag = "Lit" /\ r.lit.kind = "Bool"))
    THEN Ok
    ELSE NoDecision

\* lines 227-477: the match on to.
dispatch_to(t, r, span) ==
    CASE t.tag = "Array" -> to_array(t, r, span)
      [] t.tag = "Union" -> to_union(t, r, span)
      [] t.tag = "Intersection" -> to_intersection(t, r, span)
      [] is_keyword(t, "object") -> to_object(t, r, span)
      [] t.tag = "Keyword" /\ t.kind # "object" -> to_keyword(t, r, span)
      [] t.tag = "Enum" -> to_enum(t, r, span)
      [] t.tag = "EnumVariant" -> to_enum_variant(t, r, span)
      [] t.tag = "This" -> to_this(t, r, span)
      [] t.tag = "Interface" -> handle_type_lit(t.body, t, r, span)
      [] t.tag = "TypeLit" -> handle_type_lit(t.members, t, r, span)
      [] t.tag = "Lit" -> to_lit(t, r, span)
      [] t.tag = "Function" /\ t.type_params = None -> to_function(t, r, span)
      [] t.tag = "Tuple" -> to_tuple(t, r, span)
      [] t.tag = "Simple" -> to_simple(t, r, span)
      [] OTHER -> NoDecision

\* lines 479-488: the end of try_assign.
fallback(t, r, span) ==
    IF eq_ignore_name_and_span(t, r) THEN Ok ELSE Panic("assign")

\* A variant of to_any_or_unknown without the arm for unknown.
to_any_only(t) == is_keyword(t, "any")

\* lines 137-151: to is any or unknown.
to_any_or_unknown(t) == is_keyword(t, "any") \/ is_keyword(t, "unknown")

\* A variant of dispatch_rhs without the arm for any.
dispatch_rhs_without_any(t, r, span) ==
    CASE r.tag = "Union" -> rhs_union(t, r, span)
      [] is_keyword(r, "unknown") -> rhs_unknown(t, r, span)
      [] r.tag = "Param" -> rhs_param(t, r, span)
      [] OTHER -> NoDecision

\* lines 153-225: the match on rhs.
dispatch_rhs(t, r, span) ==
    CASE r.tag = "Union" -> rhs_union(t, r, span)
      [] is_keyword(r, "any") -> Ok
      [] is_keyword(r, "unknown") -> rhs_unknown(t, r, span)
      [] r.tag = "Param" -> rhs_param(t, r, span)
      [] OTHER -> NoDecision

try_assign(t, r, span) ==
    IF to_any_or_unknown(t) THEN Ok
    ELSE LET a == dispatch_rhs(t, r, span)
         IN  IF a # NoDecision THEN a
             ELSE LET b == dispatch_to(t, r, span)
                  IN  IF b # NoDecision THEN b ELSE fallback(t, r, span)

\* assign_to handing out the inner error as it is.
assign_to_unwrapped(self, t, span) == try_assign(t, self, span)

\* lines 13-23: Type::assign_to: any error other than AssignFailed becomes the
\* cause of an AssignFailed.
assign_to(self, t, span) ==
    LET r == try_assign(t, self, span)
    IN  IF IsErr(r) /\ r.err.kind # "AssignFailed"
        THEN Err(AssignFailed(span, t, self, <<r.err>>))
        ELSE r

(***************************************************************************)
(* analyzer/util.rs: try_assign(to, rhs) over the syntactic TsType.  Its   *)
(* Option<Error> is modelled as a result: None is Ok.  Its AssignFailed    *)
(* has no span.                                                            *)
(***************************************************************************)
TsAssignFailed(l, r, c) == [kind |-> "AssignFailed", left |-> l, right |-> r, cause |-> c]

RECURSIVE IsTsType(_)

\* The variants of Type that are variants of TsType too (a function or a
\* constructor is a TsFnOrConstructorType).
IsTsType(t) ==
    CASE t.tag \in {"Keyword", "Lit", "This", "Simple"} -> TRUE
      [] t.tag = "Array" -> IsTsType(t.elem_type)
      [] t.tag \in {"Tuple", "Union", "Intersection"} ->
            \A i \in DOMAIN t.types : IsTsType(t.types[i])
      [] t.tag = "TypeLit" ->
            \A i \in DOMAIN t.members :
                LET m == t.members[i]
                    ann == IF m.tag = "Property" THEN m.type_ann ELSE m.ret
                IN  \A j \in DOMAIN ann : IsTsType(ann[j])
      [] t.tag \in {"Function", "Constructor"} -> IsTsType(t.ret_ty)
      [] OTHER -> FALSE

RECURSIVE ts_try_assign(_, _)

ts_fail(t, r) == Err(TsAssignFailed(t, r, <<>>))

\* lines 184-203: rhs is unknown.
ts_rhs_unknown(t, r) ==
    IF is_keyword(t, "any") \/ is_keyword(t, "unknown") THEN Ok ELSE ts_fail(t, r)

\* lines 205-218: rhs is a union.
ts_rhs_union(t, r) ==
    LET rs == [i \in DOMAIN r.types |-> ts_try_assign(t, r.types[i])]
    IN  IF PanicIn(rs) THEN FirstPanic(rs)
        ELSE IF ErrorsOf(rs) = <<>> THEN Ok
        ELSE Err(UnionError(r.span, ErrorsOf(rs)))

\* lines 239-257: to is the keyword object.
ts_to_object(t, r) ==
    IF \/ r.tag \in {"TypeLit", "Function", "Constructor"}
       \/ is_keyword(r, "number")
       \/ is_keyword(r, "string")
    THEN Ok
    ELSE NoDecision

\* lines 259-269: to is a literal; the inner match is on to again, so the
\* literal is compared with itself.
ts_to_lit(t, r) ==
    IF t.tag = "Lit" /\ lit_eq_ignore_span(t.lit, t.lit) THEN Ok ELSE NoDecision

\* lines 274-288: to is a union.
ts_to_union(t, r) ==
    LET vs == [i \in DOMAIN t.types |-> ts_try_assign(t.types[i], r)]
    IN  IF PanicIn(vs) THEN FirstPanic(vs)
        ELSE IF \E i \in DOMAIN vs : IsOk(vs[i]) THEN Ok
        ELSE Err(UnionError(t.span, ErrorsOf(vs)))

\* lines 290-308: to is an intersection.
ts_to_intersection(t, r) ==
    LET vs == [i \in DOMAIN t.types |-> ts_try_assign(t.types[i], r)]
    IN  IF PanicIn(vs) THEN FirstPanic(vs)
        ELSE IF \E i \in DOMAIN vs : IsErr(vs[i])
        THEN Err(IntersectionError(t.span, FirstErr(vs).err))
        ELSE Ok

\* lines 310-328: to is an array.
ts_to_array(t, r) ==
    IF r.tag = "Array"
    THEN LET c == ts_try_assign(t.elem_type, r.elem_type)
         IN  IF IsErr(c) THEN Err(TsAssignFailed(t, r, <<c.err>>)) ELSE c
    ELSE ts_fail(t, r)

\* lines 330-374: to is another keyword.
ts_to_keyword(t, r) ==
    IF r.tag = "Keyword" /\ r.kind = t.kind THEN Ok
    ELSE IF t.kind = "string" /\ r.tag = "Lit" /\ r.lit.kind = "Str" THEN Ok
    ELSE IF t.kind = "number" /\ r.tag = "Lit" /\ r.lit.kind = "Number" THEN Ok
    ELSE IF t.kind = "boolean" /\ r.tag = "Lit" /\ r.lit.kind = "Bool" THEN Ok
    ELSE ts_fail(t, r)

\* lines 388-392: the members of to without a counterpart in rhs.
ts_missing_fields(ms, rms) ==
    SelectSeq(ms, LAMBDA m : \A j \in DOMAIN rms : ~eq_ignore_name_and_span(rms[j], m))

\* lines 376-399: to is a type literal.
ts_to_type_lit(t, r) ==
    IF r.tag = "TypeLit"
    THEN IF \A i \in DOMAIN t.members :
                \E j \in DOMAIN r.members :
                    eq_ignore_name_and_span(r.members[j], t.members[i])
         THEN Ok
         ELSE Err(MissingFields(t.span, ts_missing_fields(t.members, r.members)))
    ELSE NoDecision

\* lines 226-402: the match on to.
ts_dispatch_to(t, r) ==
    CASE is_keyword(t, "any") \/ is_keyword(t, "unknown") -> Ok
      [] is_keyword(t, "object") -> ts_to_object(t, r)
      [] t.tag = "Lit" -> ts_to_lit(t, r)
      [] t.tag = "This" -> Err(CannotAssingToThis(t.span))
      [] t.tag = "Union" -> ts_to_union(t, r)
      [] t.tag = "Intersection" -> ts_to_intersection(t, r)
      [] t.tag = "Array" -> ts_to_array(t, r)
      [] t.tag = "Keyword" /\ t.kind \notin {"any", "unknown", "object"} ->
            ts_to_keyword(t, r)
      [] t.tag = "TypeLit" -> ts_to_type_lit(t, r)
      [] OTHER -> NoDecision

\* lines 404-409: the end of try_assign.
ts_fallback(t, r) ==
    IF eq_ignore_name_and_span(t, r) THEN Ok ELSE Panic("assign")

\* lines 178-221: the match on rhs, which comes first here.
ts_dispatch_rhs(t, r) ==
    CASE is_keyword(r, "any") -> Ok
      [] is_keyword(r, "unknown") -> ts_rhs_unknown(t, r)
      [] r.tag = "Union" -> ts_rhs_union(t, r)
      [] OTHER -> NoDecision

ts_try_assign(t, r) ==
    LET a == ts_dispatch_rhs(t, r)
    IN  IF a # NoDecision THEN a
        ELSE LET b == ts_dispatch_to(t, r)
             IN  IF b # NoDecision THEN b ELSE ts_fallback(t, r)

\* lines 160-174: TypeRefExt::assign_to.
ts_assign_to(self, t) ==
    LET r == ts_try_assign(t, self)
    IN  IF IsErr(r) /\ r.err.kind # "AssignFailed"
        THEN Err(TsAssignFailed(t, self, <<r.err>>))
        ELSE r

(***************************************************************************)
(* analyzer/expr.rs: expressions.  An expression is a record whose tag     *)
(* names the variant of Expr; an identifier is the Ident record, which is  *)
(* also what a property key is.                                            *)
(***************************************************************************)
ThisExpr(sp) == [tag |-> "EThis", span |-> sp]

LitExpr(k, v, sp) == [tag |-> "ELit", span |-> sp, kind |-> k, value |-> v]

\* elems: a sequence of Option<ExprOrSpread>; a hole is None.
ArrayLit(elems, sp) == [tag |-> "EArray", span |-> sp, elems |-> elems]

ExprOrSpread(e, spread) == [spread |-> spread, expr |-> e]

ParenExpr(e, sp) == [tag |-> "EParen", span |-> sp, expr |-> e]

Tpl(sp) == [tag |-> "ETpl", span |-> sp]

UnaryExpr(o, e, sp) == [tag |-> "EUnary", span |-> sp, op |-> o, arg |-> e]

TsAsExpr(t, sp) == [tag |-> "ETsAs", span |-> sp, type_ann |-> t]

TsTypeCastExpr(t, sp) == [tag |-> "ETsTypeCast", span |-> sp, type_ann |-> t]

TsNonNullExpr(e, sp) == [tag |-> "ETsNonNull", span |-> sp, expr |-> e]

\* props: a sequence of PropOrSpread; a property is [spread |-> FALSE, key |-> k].
ObjectLit(props, sp) == [tag |-> "EObject", span |-> sp, props |-> props]

PropOf(k) == [spread |-> FALSE, key |-> k]

SpreadProp == [spread |-> TRUE]

YieldExpr(sp) == [tag |-> "EYield", span |-> sp]

UpdateExpr(sp) == [tag |-> "EUpdate", span |-> sp]

CondExpr(c, a, sp) == [tag |-> "ECond", span |-> sp, cons |-> c, alt |-> a]

\* args of a new expression is an Option; type_args is an Option of a list.
NewExpr(c, args, targs, sp) ==
    [tag |-> "ENew", span |-> sp, callee |-> c, args |-> args, type_args |-> targs]

CallExpr(c, args, targs, sp) ==
    [tag |-> "ECall", span |-> sp, callee |-> c, args |-> args, type_args |-> targs]

SuperCall(sp) == [tag |-> "ESuperCall", span |-> sp]

SeqExpr(es, sp) == [tag |-> "ESeq", span |-> sp, exprs |-> es]

AwaitExpr(sp) == [tag |-> "EAwait", span |-> sp]

\* A class: its members are class properties ([tag |-> "ClassProp", key,
\* type_ann, value]), constructors ([tag |-> "Constructor", params]) and
\* the members type_of_class skips.
ClassExpr(body, sp) == [tag |-> "EClass", span |-> sp, body |-> body]

ArrowExpr(sp) == [tag |-> "EArrow", span |-> sp]

\* A function: returns holds, in source order, the argument (an Option) of
\* every return statement the visitor of infer_return_type meets.
\* body is an Option: the span of the body.
FnExpr(tps, ps, ret, body, returns, sp) ==
    [tag |-> "EFn", span |-> sp, type_params |-> tps, params |-> ps,
     return_type |-> ret, body |-> body, returns |-> returns]

MemberExpr(o, prop, computed, sp) ==
    [tag |-> "EMember", span |-> sp, obj |-> o, prop |-> prop, computed |-> computed]

SuperMember(sp) == [tag |-> "ESuperMember", span |-> sp]

MetaProp(sp) == [tag |-> "EMetaProp", span |-> sp]

AssignExpr(r, sp) == [tag |-> "EAssign", span |-> sp, right |-> r]

BinExpr(o, l, r, sp) == [tag |-> "EBin", span |-> sp, op |-> o, left |-> l, right |-> r]

\* Any other variant of Expr (a tagged template, JSX, ...).
OtherExpr(k, sp) == [tag |-> "EOther", span |-> sp, kind |-> k]

(***************************************************************************)
(* The scope: vars is what find_var_type reads, types what find_type       *)
(* reads, imports is resolved_imports.  Each maps a name to an Option.     *)
(***************************************************************************)
Lookup(f, n) == IF n \in DOMAIN f THEN f[n] ELSE None

find_var_type(sc, sym) == Lookup(sc.vars, sym)

find_type(sc, sym) == Lookup(sc.types, sym)

ExportInfo(ty, extra) == [ty |-> ty, extra |-> extra]

\* defaults::default: the built-in types of a few global names.
default(sym) ==
    IF sym = "Object" THEN Some(TypeLit(<<>>, DUMMY_SP)) ELSE None

\* generalize_lit also widening the element type of an array.
generalize_lit_deep(ty) ==
    LET keyword(l) == Keyword(CASE l.lit.kind = "Bool" -> "boolean"
                                [] l.lit.kind = "Number" -> "number"
                                [] l.lit.kind = "Str" -> "string",
                              l.span)
    IN  CASE ty.tag = "Lit" -> keyword(ty)
          [] ty.tag = "Array" /\ ty.elem_type.tag = "Lit" -> Array(keyword(ty.elem_type), ty.span)
          [] OTHER -> ty

\* analyzer/util.rs lines 57-76: generalize_lit.
generalize_lit(ty) ==
    IF ty.tag = "Lit"
    THEN Keyword(CASE ty.lit.kind = "Bool" -> "boolean"
                   [] ty.lit.kind = "Number" -> "number"
                   [] ty.lit.kind = "Str" -> "string",
                 ty.span)
    ELSE ty

never_ty(sp) == Keyword("never", sp)

\* expr.rs lines 986-994.
is_never(ty) == ~is_keyword(ty, "never")

RECURSIVE remove_falsy(_)

\* expr.rs lines 947-964.
remove_falsy_intersection(n) ==
    LET types == [i \in DOMAIN n.types |-> remove_falsy(n.types[i])]
    IN  IF \E i \in DOMAIN types : is_never(types[i])
        THEN never_ty(n.span)
        ELSE [n EXCEPT !.types = types]

\* expr.rs lines 966-978.
remove_falsy_union(n) ==
    LET types == [i \in DOMAIN n.types |-> remove_falsy(n.types[i])]
    IN  [n EXCEPT !.types = SelectSeq(types, LAMBDA ty : ~is_never(ty))]

\* expr.rs lines 923-936.
remove_falsy(ty) ==
    CASE ty.tag = "Union" -> remove_falsy_union(ty)
      [] ty.tag = "Intersection" -> remove_falsy_intersection(ty)
      [] is_keyword(ty, "undefined") \/ is_keyword(ty, "null") -> never_ty(ty.span)
      [] OTHER -> ty

\* expr.rs lines 996-1030.
negate(ty) ==
    IF ty.tag = "Lit"
    THEN CASE ty.lit.kind = "Bool" ->
                [ty EXCEPT !.lit.value = IF @ = "true" THEN "false" ELSE "true"]
           [] ty.lit.kind = "Number" ->
                [ty EXCEPT !.lit = [kind |-> "Bool", span |-> @.span,
                                    value |-> IF @.value # "0" THEN "true" ELSE "false"]]
           [] ty.lit.kind = "Str" ->
                [ty EXCEPT !.lit = [kind |-> "Bool", span |-> @.span,
                                    value |-> IF @.value # "" THEN "true" ELSE "false"]]
    ELSE Keyword("boolean", ty.span)

\* util/mod.rs lines 243-253: pat_to_ts_fn_param.  A pattern is an Ident, a
\* [tag |-> "Assign", left] or a [tag |-> "ExprPat"].
RECURSIVE pat_to_ts_fn_param(_)

pat_to_ts_fn_param(p) ==
    CASE p.tag = "Assign" -> pat_to_ts_fn_param(p.left)
      [] p.tag = "ExprPat" -> Panic("pat_to_ts_fn_param")
      [] OTHER -> OkT(p)

\* The parameters of a signature, each through f; the first panic aborts.
MapParams(ps, f(_)) ==
    LET rs == [i \in DOMAIN ps |-> f(ps[i])]
    IN  IF PanicIn(rs) THEN FirstPanic(rs) ELSE OkT([i \in DOMAIN rs |-> rs[i].ty])

\* try_instantiate with its two checks in the other order.
try_instantiate_params_first(span, ret_type, param_decls, ty_params_decl, args, i) ==
    LET type_params_len == IF ty_params_decl = None THEN 0 ELSE Len(ty_params_decl[1])
        type_args_len == IF i = None THEN 0 ELSE Len(i[1])
    IN  IF Len(param_decls) > Len(args)
        THEN Err(WrongParams(span, 0, Len(param_decls), type_args_len))
        ELSE IF type_args_len > type_params_len
        THEN Err(WrongTypeParams(span, 0, type_params_len, type_args_len))
        ELSE OkT(ret_type)

\* expr.rs lines 764-795.
try_instantiate(span, ret_type, param_decls, ty_params_decl, args, i) ==
    LET type_params_len == IF ty_params_decl = None THEN 0 ELSE Len(ty_params_decl[1])
        type_args_len == IF i = None THEN 0 ELSE Len(i[1])
    IN  IF type_args_len > type_params_len
        THEN Err(WrongTypeParams(span, 0, type_params_len, type_args_len))
        ELSE IF Len(param_decls) > Len(args)
        THEN Err(WrongParams(span, 0, Len(param_decls), type_args_len))
        ELSE OkT(ret_type)

ret_err(ty, kind) ==
    IF kind = "Call" THEN Err(NoCallSignature(ty.span)) ELSE Err(NoNewSignature(ty.span))

ann_or(ann, dflt) == IF ann = None THEN dflt ELSE ann[1]

RECURSIVE extract(_, _, _, _)
RECURSIVE extract_members(_, _, _, _, _, _)
RECURSIVE extract_union(_, _, _, _, _, _)

\* expr.rs lines 652-710: the loop over the members of a type literal.
extract_members(ty, ms, i, kind, args, type_args) ==
    IF i > Len(ms) THEN ret_err(ty, kind)
    ELSE IF \/ (ms[i].tag = "Call" /\ kind = "Call")
            \/ (ms[i].tag = "Construct" /\ kind = "New")
    THEN LET r == try_instantiate(ty.span, ann_or(ms[i].ret, any(ty.span)), ms[i].params,
                                  ms[i].type_params, args, type_args)
         IN  IF IsOk(r) THEN r ELSE extract_members(ty, ms, i + 1, kind, args, type_args)
    ELSE extract_members(ty, ms, i + 1, kind, args, type_args)

\* expr.rs lines 748-758: the loop over the branches of a union.
extract_union(u, i, errors, kind, args, type_args) ==
    IF i > Len(u.types) THEN Err(UnionError(u.span, errors))
    ELSE LET r == extract(u.types[i], kind, args, type_args)
         IN  IF IsErr(r)
             THEN extract_union(u, i + 1, Append(errors, r.err), kind, args, type_args)
             ELSE r

\* expr.rs lines 631-762.
extract(ty, kind, args, type_args) ==
    CASE ty.tag = "TypeLit" -> extract_members(ty, ty.members, 1, kind, args, type_args)
      [] ty.tag = "Function" /\ kind = "Call" ->
            try_instantiate(ty.span, ty.ret_ty, ty.params, ty.type_params, args, type_args)
      [] ty.tag = "Constructor" /\ kind = "New" ->
            try_instantiate(ty.span, ty.ret_ty, ty.params, ty.type_params, args, type_args)
      [] ty.tag = "Union" -> extract_union(ty, 1, <<>>, kind, args, type_args)
      [] OTHER -> ret_err(ty, kind)

\* expr.rs lines 814-892.
expand_export_info(sc, name, type_params) ==
    LET found == IF Lookup(sc.imports, name.sym) # None THEN Lookup(sc.imports, name.sym)
                 ELSE find_type(sc, name.sym)
    IN  IF found = None THEN Err(UndefinedSymbol(name.span))
        ELSE LET e == found[1]
             IN  IF e.ty # None
                 THEN IF type_params # None THEN Panic("assert_eq") ELSE OkT(e.ty[1])
                 ELSE IF e.extra = None THEN Panic("ty and extra are both null")
                 ELSE CASE e.extra[1].tag = "Interface" ->
                                OkT(TypeLit(e.extra[1].body, e.extra[1].span))
                        [] e.extra[1].tag = "Alias" -> OkT(e.extra[1].type_ann)
                        [] OTHER ->
                                IF e.extra[1].tag # "ModuleNoBody" /\ type_params # None
                                THEN Panic("assert_eq")
                                ELSE Panic("instantiate")

\* expr.rs lines 895-909: a property's key is kept as an expression.
prop_key_to_expr(p) == p.key

\* expr.rs lines 339-352.
type_of_prop(p) == Property(prop_key_to_expr(p), None, p.key.span)

RECURSIVE type_of(_, _)
RECURSIVE array_elems(_, _, _, _)
RECURSIVE class_members(_, _, _, _)

\* expr.rs lines 20-52: an identifier.
type_of_ident(sc, i) ==
    IF i.sym = "require" THEN Panic("typeof(require('...'))")
    ELSE IF Lookup(sc.imports, i.sym) # None
    THEN Panic("Analyzer.type_of() should handle resolved imports")
    ELSE IF find_var_type(sc, i.sym) # None THEN OkT(find_var_type(sc, i.sym)[1])
    ELSE LET x == expand_export_info(sc, i, None)
         IN  IF IsPanic(x) \/ IsOk(x) THEN x
             ELSE IF default(i.sym) # None THEN OkT(default(i.sym)[1])
             ELSE Err(UndefinedSymbol(i.span))

\* PushNew without the search for an equal type.
PushAlways(types, ty) == Append(types, ty)

PushNew(types, ty) ==
    IF \A k \in DOMAIN types : ~eq_ignore_span(types[k], ty) THEN Append(types, ty) ELSE types

\* expr.rs lines 57-78: the loop over the elements of an array literal.
array_elems(sc, a, i, types) ==
    IF i > Len(a.elems) THEN OkT(types)
    ELSE IF a.elems[i] = None
    THEN array_elems(sc, a, i + 1, PushNew(types, undefined(a.span)))
    ELSE IF a.elems[i][1].spread THEN Panic("type of array spread")
    ELSE LET r == type_of(sc, a.elems[i][1].expr)
         IN  IF IsOk(r)
             THEN array_elems(sc, a, i + 1, PushNew(types, generalize_lit(r.ty)))
             ELSE r

\* expr.rs lines 54-93: an array literal.
type_of_array(sc, a) ==
    LET r == array_elems(sc, a, 1, <<>>)
    IN  IF ~IsOk(r) THEN r
        ELSE OkT(Array(CASE Len(r.ty) = 0 -> any(a.span)
                         [] Len(r.ty) = 1 -> r.ty[1]
                         [] OTHER -> Union(r.ty, a.span),
                       a.span))

\* expr.rs lines 95-122: a literal.
type_of_lit(e) ==
    CASE e.kind \in {"Bool", "Str"} -> OkT(Lit(e.kind, e.value, e.span))
      [] e.kind = "Num" -> OkT(Lit("Number", e.value, e.span))
      [] e.kind = "Null" -> OkT(Keyword("null", e.span))
      [] e.kind = "Regex" -> OkT(Simple("TsTypeRef", "RegExp", e.span))
      [] OTHER -> Panic("typeof")

\* expr.rs lines 160-173: an object literal.
type_of_object(e) ==
    IF \E i \in DOMAIN e.props : e.props[i].spread
    THEN Panic("spread element in object literal")
    ELSE OkT(TypeLit([i \in DOMAIN e.props |-> type_of_prop(e.props[i])], e.span))

\* type_of_cond widening the literal types of its branches.
type_of_cond_widening(sc, e) ==
    LET cons_ty == type_of(sc, e.cons)
    IN  IF ~IsOk(cons_ty) THEN cons_ty
        ELSE LET alt_ty == type_of(sc, e.alt)
             IN  IF ~IsOk(alt_ty) THEN alt_ty
                 ELSE IF eq_ignore_span(cons_ty.ty, alt_ty.ty) THEN cons_ty
                 ELSE OkT(Union(<<generalize_lit(cons_ty.ty), generalize_lit(alt_ty.ty)>>,
                                e.span))

\* expr.rs lines 183-198: a conditional.
type_of_cond(sc, e) ==
    LET cons_ty == type_of(sc, e.cons)
    IN  IF ~IsOk(cons_ty) THEN cons_ty
        ELSE LET alt_ty == type_of(sc, e.alt)
             IN  IF ~IsOk(alt_ty) THEN alt_ty
                 ELSE IF eq_ignore_span(cons_ty.ty, alt_ty.ty) THEN cons_ty
                 ELSE OkT(Union(<<cons_ty.ty, alt_ty.ty>>, e.span))

\* expr.rs lines 441-486.
infer_return_type(sc, f) ==
    LET types == [i \in DOMAIN f.returns |->
                    IF f.returns[i] = None THEN OkT(undefined(f.body[1]))
                    ELSE type_of(sc, f.returns[i][1])]
    IN  IF PanicIn(types) THEN FirstPanic(types)
        ELSE IF \E i \in DOMAIN types : IsErr(types[i]) THEN FirstErr(types)
        ELSE CASE Len(types) = 0 -> OkT(undefined(f.body[1]))
               [] Len(types) = 1 -> types[1]
               [] OTHER -> OkT(Union([i \in DOMAIN types |-> types[i].ty], f.body[1]))

\* expr.rs lines 488-508.
type_of_fn(sc, f) ==
    LET ret_ty == IF f.return_type # None THEN OkT(f.return_type[1])
                  ELSE IF f.body # None THEN infer_return_type(sc, f)
                  ELSE Panic("function without body should have type annotation")
        params == MapParams(f.params, pat_to_ts_fn_param)
    IN  IF ~IsOk(ret_ty) THEN ret_ty
        ELSE IF ~IsOk(params) THEN params
        ELSE OkT(Function(f.type_params, params.ty, ret_ty.ty, f.span))

\* expr.rs lines 401-417: a constructor's parameter.
ctor_param(p) ==
    IF p.tag = "TsParamProp"
    THEN IF p.param.tag = "Assign" THEN pat_to_ts_fn_param(p.param.left) ELSE OkT(p.param)
    ELSE pat_to_ts_fn_param(p)

\* expr.rs lines 356-433: the loop over the members of a class.
class_members(sc, body, i, type_props) ==
    IF i > Len(body) THEN OkT(type_props)
    ELSE LET m == body[i]
         IN  CASE m.tag = "ClassProp" ->
                    LET ty == IF m.type_ann # None THEN OkT(m.type_ann[1])
                              ELSE IF m.value # None THEN type_of(sc, m.value[1])
                              ELSE OkT(any(m.span))
                    IN  IF ~IsOk(ty) THEN ty
                        ELSE class_members(sc, body, i + 1,
                                Append(type_props, Property(m.key, Some(ty.ty), m.span)))
               [] m.tag = "Constructor" ->
                    LET ps == MapParams(m.params, ctor_param)
                    IN  IF ~IsOk(ps) THEN ps
                        ELSE class_members(sc, body, i + 1,
                                Append(type_props, ConstructSig(ps.ty, None, m.span)))
               [] OTHER -> class_members(sc, body, i + 1, type_props)

\* expr.rs lines 354-439.
type_of_class(sc, c) ==
    LET r == class_members(sc, c.body, 1, <<>>)
    IN  IF ~IsOk(r) THEN r ELSE OkT(TypeLit(r.ty, c.span))

\* expr.rs lines 520-540: a call of require.
extract_require(sc, i, args) ==
    IF Len(args) = 0 THEN Panic("unwrap")
    ELSE IF args[1].spread THEN Panic("error reporting: spread element in require()")
    ELSE IF ~(args[1].expr.tag = "ELit" /\ args[1].expr.kind = "Str")
    THEN Panic("dynamic import: require()")
    ELSE IF Lookup(sc.imports, args[1].expr.value) # None THEN Panic("dep")
    ELSE Err(UndefinedSymbol(i.span))

\* method_candidates comparing the member's name with its span.
method_candidates_exact(ms, prop, kind) ==
    SelectSeq(ms, LAMBDA m : m.tag = "Method" /\ kind = "Call" /\ prop = m.key)

\* expr.rs lines 552-600: the methods of a type literal named like the
\* invoked member.
method_candidates(ms, prop, kind) ==
    SelectSeq(ms, LAMBDA m : m.tag = "Method" /\ kind = "Call" /\ eq_ignore_span(prop, m.key))

\* expr.rs lines 573-599: the choice among the candidates.
choose_candidate(cs, args, span) ==
    CASE Len(cs) = 0 -> NoDecision
      [] Len(cs) = 1 -> OkT(ann_or(cs[1].ret, any(span)))
      [] OTHER ->
            IF \E i \in DOMAIN cs : Len(cs[i].params) = Len(args)
            THEN LET i == CHOOSE i \in DOMAIN cs :
                            /\ Len(cs[i].params) = Len(args)
                            /\ \A j \in 1..(i - 1) : Len(cs[j].params) # Len(args)
                 IN  OkT(ann_or(cs[i].ret, any(span)))
            ELSE Panic("multiple methods with same name and same number of arguments")

\* expr.rs lines 542-622: the callee is a member expression.
extract_member(sc, callee, kind, args) ==
    LET obj_type == type_of(sc, callee.obj)
        span == callee.span
        nosig == IF callee.computed THEN Panic("typeeof(CallExpr)")
                 ELSE IF kind = "Call" THEN Err(NoCallSignature(span))
                 ELSE Err(NoNewSignature(span))
    IN  IF ~IsOk(obj_type) THEN obj_type
        ELSE IF obj_type.ty.tag = "TypeLit"
        THEN LET c == choose_candidate(
                        method_candidates(obj_type.ty.members, callee.prop, kind), args, span)
             IN  IF c = NoDecision THEN nosig ELSE c
        ELSE IF is_keyword(obj_type.ty, "any") THEN OkT(any(span))
        ELSE nosig

\* expr.rs lines 510-629.
extract_call_new_expr(sc, callee, kind, args, type_args) ==
    CASE callee.tag = "Ident" /\ callee.sym = "require" -> extract_require(sc, callee, args)
      [] callee.tag = "EMember" -> extract_member(sc, callee, kind, args)
      [] OTHER ->
            LET ty == type_of(sc, callee)
            IN  IF ~IsOk(ty) THEN ty ELSE extract(ty.ty, kind, args, type_args)

\* expr.rs lines 254-290: a member expression.
type_of_member(sc, e) ==
    LET obj_ty == type_of(sc, e.obj)
    IN  IF ~IsOk(obj_ty) THEN obj_ty
        ELSE IF e.computed
        THEN LET index_type == type_of(sc, e.prop)
             IN  IF ~IsOk(index_type) THEN index_type
                 ELSE OkT(IndexedAccess(obj_ty.ty, index_type.ty, e.span))
        ELSE OkT(IndexedAccess(obj_ty.ty, Keyword("string", e.span), e.span))

\* expr.rs lines 131-142, 331-333: a unary expression.
type_of_unary(sc, e) ==
    CASE e.op = "!" ->
            LET r == type_of(sc, e.arg) IN IF IsOk(r) THEN OkT(negate(r.ty)) ELSE r
      [] e.op = "typeof" -> OkT(Keyword("string", e.span))
      [] e.op = "void" -> OkT(undefined(e.span))
      [] OTHER -> Panic("typeof")

\* expr.rs lines 296-329: a binary expression.
type_of_bin(sc, e) ==
    CASE e.op \in {"||", "&&"} -> type_of(sc, e.right)
      [] e.op \in {"-", "+"} -> OkT(Keyword("number", e.span))
      [] e.op \in {"===", "!==", "!=", "==", "<=", "<", ">=", ">"} ->
            OkT(Keyword("boolean", e.span))
      [] OTHER -> Panic("typeof")

\* expr.rs lines 14-337.
type_of(sc, e) ==
    CASE e.tag = "EThis" -> OkT(This(e.span))
      [] e.tag = "Ident" -> type_of_ident(sc, e)
      [] e.tag = "EArray" -> type_of_array(sc, e)
      [] e.tag = "ELit" -> type_of_lit(e)
      [] e.tag = "EParen" -> type_of(sc, e.expr)
      [] e.tag = "ETpl" -> OkT(Keyword("string", e.span))
      [] e.tag = "EUnary" -> type_of_unary(sc, e)
      [] e.tag \in {"ETsAs", "ETsTypeCast"} -> OkT(e.type_ann)
      [] e.tag = "ETsNonNull" ->
            LET r == type_of(sc, e.expr) IN IF IsOk(r) THEN OkT(remove_falsy(r.ty)) ELSE r
      [] e.tag = "EObject" -> type_of_object(e)
      [] e.tag = "EYield" -> OkT(any(e.span))
      [] e.tag = "EUpdate" -> OkT(Keyword("number", e.span))
      [] e.tag = "ECond" -> type_of_cond(sc, e)
      [] e.tag = "ENew" ->
            extract_call_new_expr(sc, e.callee, "New", ann_or(e.args, <<>>), e.type_args)
      [] e.tag = "ECall" ->
            extract_call_new_expr(sc, e.callee, "Call", e.args, e.type_args)
      [] e.tag = "ESuperCall" -> OkT(any(e.span))
      [] e.tag = "ESeq" ->
            IF Len(e.exprs) >= 1 THEN type_of(sc, e.exprs[Len(e.exprs)])
            ELSE Panic("assert")
      [] e.tag = "EAwait" -> Panic("typeof(AwaitExpr)")
      [] e.tag = "EClass" -> type_of_class(sc, e)
      [] e.tag = "EArrow" -> Panic("typeof(ArrowExpr)")
      [] e.tag = "EFn" -> type_of_fn(sc, e)
      [] e.tag = "EMember" -> type_of_member(sc, e)
      [] e.tag = "EMetaProp" -> Panic("typeof(MetaProp)")
      [] e.tag = "EAssign" -> type_of(sc, e.right)
      [] e.tag = "EBin" -> type_of_bin(sc, e)
      [] OTHER -> Panic("typeof")

(***************************************************************************)
(* The inputs: a bounded universe of types.  Leaves first, then one layer  *)
(* of every recursive variant over small sets of components, then a few    *)
(* types nested two deep.                                                  *)
(***************************************************************************)
SeqsUpTo(S, n) == UNION {[1..k -> S] : k \in 0..n}

K(k) == Keyword(k, 1)

KeywordKinds ==
    {"any", "unknown", "string", "number", "boolean", "undefined", "object", "never"}

Keywords == {K(k) : k \in KeywordKinds}

Lits ==
    {Lit("Bool", "true", 1), Lit("Number", "1", 1), Lit("Number", "2", 1),
     Lit("Str", "a", 1), Lit("Number", "1", 2)}

Names ==
    {Enum("E", 1), Enum("F", 1), EnumVariant("E", "A", 1), EnumVariant("E", "B", 1),
     EnumVariant("F", "A", 1), Param("T", None, 1), Param("U", None, 1),
     Class("C", 1), Simple("TsTypePredicate", "", 1), Simple("TsTypeRef", "X", 1),
     This(1), Keyword("number", 2)}

Atoms == Keywords \cup Lits \cup Names

UnionCore ==
    {K("any"), K("unknown"), K("number"), K("string"), K("object"), Lit("Number", "1", 1)}

TupleCore == {K("number"), K("string"), K("undefined"), Lit("Number", "1", 1)}

IntersectionCore == {K("number"), K("string"), K("object")}

ArrayCore ==
    {K("number"), K("string"), K("any"), Lit("Number", "1", 1), K("object"),
     Union(<<K("number"), K("string")>>, 1), Tuple(<<K("number")>>, 1),
     Array(K("number"), 1)}

Unions == {Union(ts, 1) : ts \in SeqsUpTo(UnionCore, MaxLen)}

Tuples == {Tuple(ts, 1) : ts \in SeqsUpTo(TupleCore, MaxLen)}

Intersections == {Intersection(ts, 1) : ts \in SeqsUpTo(IntersectionCore, MaxLen)}

Arrays == {Array(t, 1) : t \in ArrayCore}

Params ==
    {Param("T", Some(K("number")), 1), Param("T", Some(K("unknown")), 1),
     Param("U", Some(Union(<<K("number"), K("string")>>, 1)), 1)}

Functions ==
    {Function(None, <<>>, K("number"), 1),
     Function(None, <<Ident("x", 1)>>, K("string"), 1),
     Function(None, <<Ident("y", 2)>>, K("string"), 2),
     Function(None, <<>>, Lit("Number", "1", 1), 1),
     Function(Some(<<Ident("T", 1)>>), <<>>, K("number"), 1),
     Constructor(None, <<>>, K("number"), 1),
     Constructor(None, <<Ident("x", 1)>>, K("number"), 2)}

Members ==
    {Property(Ident("a", 1), Some(K("number")), 1),
     Property(Ident("a", 1), Some(K("string")), 1),
     Property(Ident("a", 1), Some(Lit("Number", "1", 1)), 1),
     Property(Ident("a", 1), None, 1),
     Property(Ident("a", 2), Some(K("number")), 2),
     Property(Ident("b", 1), Some(K("number")), 1),
     Method(Ident("a", 1), <<>>, Some(K("string")), 1),
     CallSig(<<>>, Some(K("number")), 1),
     CallSig(<<Ident("x", 1)>>, Some(K("number")), 2)}

TypeLits ==
    {TypeLit(ms, 1) : ms \in SeqsUpTo(Members, 1)}
        \cup {TypeLit(<<Property(Ident("a", 1), Some(K("number")), 1),
                        Property(Ident("b", 1), Some(K("number")), 1)>>, 1),
              Interface("I", <<>>, 1),
              Interface("I", <<Property(Ident("a", 1), Some(K("number")), 1)>>, 1)}

Nested ==
    {Union(<<Union(<<K("number"), K("string")>>, 1), K("boolean")>>, 1),
     Union(<<This(1), K("number")>>, 1),
     Union(<<TypeLit(<<>>, 1), K("number")>>, 1),
     Union(<<Param("T", None, 1), K("number")>>, 1),
     Union(<<K("number"), Function(None, <<>>, K("number"), 1)>>, 1),
     Tuple(<<Function(None, <<>>, K("number"), 1)>>, 1),
     Tuple(<<K("number"), K("any")>>, 1),
     Tuple(<<Tuple(<<K("number")>>, 1), K("string")>>, 1),
     Intersection(<<TypeLit(<<>>, 1), K("object")>>, 1)}

Types ==
    Atoms \cup Unions \cup Tuples \cup Intersections \cup Arrays \cup Params
        \cup Functions \cup TypeLits \cup Nested

NoType == [tag |-> "NoType"]

NoExpr == [tag |-> "NoExpr"]

NoResult == [kind |-> "NoResult"]

NoScope == [tag |-> "NoScope"]

NoStmts == <<>>

\* The span a caller passes to assign_to.
CallSpans == {3}

(***************************************************************************)
(* The assignability check as a state machine: the caller holds a pair of  *)
(* types and calls one of the two implementations.                         *)
(***************************************************************************)
InitAssign ==
    /\ op = "none"
    /\ to \in Types
    /\ rhs \in Types
    /\ expr = NoExpr
    /\ scope = NoScope
    /\ stmts = NoStmts
    /\ res = NoResult

\* rhs.assign_to(to, span) of ty/assign.rs.
AssignTo ==
    /\ op = "none"
    /\ to # NoType
    /\ \E span \in CallSpans : res' = assign_to(rhs, to, span)
    /\ op' = "assign_to"
    /\ UNCHANGED <<to, rhs, expr, scope, stmts>>

\* rhs.assign_to(to) of analyzer/util.rs.
TsAssignTo ==
    /\ op = "none"
    /\ to # NoType
    /\ IsTsType(to)
    /\ IsTsType(rhs)
    /\ res' = ts_assign_to(rhs, to)
    /\ op' = "ts_assign_to"
    /\ UNCHANGED <<to, rhs, expr, scope, stmts>>

NextAssign == AssignTo \/ TsAssignTo

SpecAssign == InitAssign /\ [][NextAssign]_vars

(***************************************************************************)
(* The inputs of type_of: a bounded universe of expressions and scopes.    *)
(***************************************************************************)
FooMethods ==
    TypeLit(<<Method(Ident("foo", 1), <<Ident("x", 1)>>, Some(K("string")), 1)>>, 1)

Overloads ==
    TypeLit(<<Method(Ident("foo", 1), <<>>, Some(K("number")), 1),
              Method(Ident("foo", 1), <<Ident("x", 1)>>, Some(K("string")), 1),
              Method(Ident("foo", 1), <<Ident("y", 1)>>, Some(K("boolean")), 1)>>, 1)

Callable ==
    TypeLit(<<CallSig(<<Ident("x", 1)>>, Some(K("string")), 1),
              ConstructSig(<<>>, None, 1)>>, 1)

OverloadedCalls ==
    TypeLit(<<CallSig(<<>>, Some(K("number")), 1),
              CallSig(<<Ident("x", 1)>>, Some(K("string")), 1),
              CallSig(<<Ident("y", 1)>>, Some(K("boolean")), 1)>>, 1)

GlobalScope ==
    [vars |-> [n \in {"x", "f", "o", "p", "a", "u", "c"} |->
                CASE n = "x" -> Some(K("number"))
                  [] n = "f" -> Some(Function(None, <<Ident("x", 1)>>, K("string"), 1))
                  [] n = "o" -> Some(FooMethods)
                  [] n = "p" -> Some(Overloads)
                  [] n = "a" -> Some(K("any"))
                  [] n = "u" -> Some(Union(<<K("number"), K("undefined")>>, 1))
                  [] n = "c" -> Some(Callable)],
     types |-> [n \in {"I", "A", "E", "N"} |->
                CASE n = "I" ->
                        Some(ExportInfo(None,
                            Some([tag |-> "Interface", span |-> 1,
                                  body |-> <<Property(Ident("a", 1), Some(K("number")), 1)>>])))
                  [] n = "A" ->
                        Some(ExportInfo(None, Some([tag |-> "Alias", type_ann |-> K("string")])))
                  [] n = "E" -> Some(ExportInfo(None, Some([tag |-> "Enum"])))
                  [] n = "N" -> Some(ExportInfo(None, None))],
     imports |-> [n \in {"m"} |-> Some(ExportInfo(Some(K("number")), None))]]

EmptyScope == [vars |-> <<>>, types |-> <<>>, imports |-> <<>>]

Scopes == {GlobalScope, EmptyScope}

AsTypes ==
    {K("any"), K("number"), K("undefined"), Lit("Bool", "false", 1),
     Union(<<K("number"), K("undefined")>>, 1),
     Union(<<K("null"), K("never")>>, 1),
     Intersection(<<K("number"), K("string")>>, 1),
     Intersection(<<K("number"), K("never")>>, 1),
     Function(None, <<Ident("x", 1)>>, K("string"), 1),
     Function(Some(<<Ident("T", 1)>>), <<>>, K("number"), 1),
     Function(Some(<<Ident("T", 1)>>), <<Ident("x", 1)>>, K("number"), 1),
     Constructor(None, <<>>, K("number"), 1),
     Union(<<K("number"), Function(None, <<>>, K("string"), 1)>>, 1),
     Callable, OverloadedCalls}

LiteralExprs ==
    {LitExpr("Bool", "true", 1), LitExpr("Bool", "false", 1), LitExpr("Num", "0", 1),
     LitExpr("Num", "1", 1), LitExpr("Num", "1", 2), LitExpr("Str", "", 1),
     LitExpr("Str", "a", 1), LitExpr("Null", "", 1), LitExpr("Regex", "", 1),
     LitExpr("JSXText", "", 1)}

IdentExprs ==
    {Ident(n, 1) : n \in {"x", "f", "o", "p", "a", "u", "c", "I", "A", "E", "N", "m",
                          "Object", "y", "require"}}

Functions0 ==
    {FnExpr(None, <<Ident("x", 1)>>, Some(K("number")), Some(1), <<>>, 1),
     FnExpr(None, <<>>, None, Some(1), <<>>, 1),
     FnExpr(None, <<>>, None, Some(2), <<None>>, 1),
     FnExpr(None, <<[tag |-> "Assign", left |-> Ident("x", 1)]>>, None, Some(1),
            <<Some(LitExpr("Num", "1", 1)), Some(LitExpr("Str", "a", 1))>>, 1),
     FnExpr(None, <<>>, None, Some(1), <<Some(Ident("y", 1)), Some(AwaitExpr(1))>>, 1),
     FnExpr(None, <<[tag |-> "ExprPat"]>>, Some(K("number")), Some(1), <<>>, 1),
     FnExpr(None, <<>>, None, None, <<>>, 1)}

Classes0 ==
    {ClassExpr(<<>>, 1),
     ClassExpr(<<[tag |-> "ClassProp", span |-> 1, key |-> Ident("a", 1),
                  type_ann |-> Some(K("number")), value |-> None],
                 [tag |-> "ClassProp", span |-> 1, key |-> Ident("b", 1),
                  type_ann |-> None, value |-> Some(LitExpr("Num", "1", 1))],
                 [tag |-> "ClassProp", span |-> 1, key |-> Ident("c", 1),
                  type_ann |-> None, value |-> None],
                 [tag |-> "Method", span |-> 1]>>, 1),
     ClassExpr(<<[tag |-> "Constructor", span |-> 1,
                  params |-> <<Ident("x", 1),
                               [tag |-> "TsParamProp", param |-> Ident("y", 1)],
                               [tag |-> "TsParamProp",
                                param |-> [tag |-> "Assign", left |-> Ident("z", 1)]]>>]>>, 1),
     ClassExpr(<<[tag |-> "ClassProp", span |-> 1, key |-> Ident("a", 1),
                  type_ann |-> None, value |-> Some(Ident("y", 1))]>>, 1)}

LeafExprs ==
    LiteralExprs \cup IdentExprs \cup Functions0 \cup Classes0
        \cup {TsAsExpr(t, 1) : t \in AsTypes}
        \cup {TsTypeCastExpr(K("number"), 1), ThisExpr(1), Tpl(1), YieldExpr(1),
              UpdateExpr(1), AwaitExpr(1), ArrowExpr(1), MetaProp(1), SuperCall(1),
              SuperMember(1), OtherExpr("TaggedTpl", 1)}

ExprCore ==
    {LitExpr("Num", "1", 1), LitExpr("Num", "1", 2), LitExpr("Str", "a", 1),
     LitExpr("Bool", "true", 1), Ident("x", 1), Ident("y", 1), AwaitExpr(1)}

ArgLists ==
    {<<>>, <<ExprOrSpread(LitExpr("Num", "1", 1), FALSE)>>,
     <<ExprOrSpread(LitExpr("Str", "m", 1), FALSE)>>,
     <<ExprOrSpread(LitExpr("Str", "k", 1), FALSE)>>,
     <<ExprOrSpread(Ident("x", 1), TRUE)>>,
     <<ExprOrSpread(LitExpr("Num", "1", 1), FALSE),
       ExprOrSpread(LitExpr("Str", "a", 1), FALSE)>>}

TypeArgLists == {None, Some(<<K("number")>>)}

Callees ==
    IdentExprs \cup {TsAsExpr(t, 1) : t \in AsTypes}
        \cup {MemberExpr(o, Ident("foo", 2), c, 1) :
                o \in {Ident("o", 1), Ident("p", 1), Ident("a", 1), Ident("x", 1),
                       Ident("y", 1)},
                c \in BOOLEAN}
        \cup {MemberExpr(Ident("o", 1), Ident("bar", 1), FALSE, 1), SuperMember(1)}

ElemLists ==
    SeqsUpTo({None, Some(ExprOrSpread(LitExpr("Num", "1", 1), FALSE)),
              Some(ExprOrSpread(LitExpr("Num", "2", 2), FALSE)),
              Some(ExprOrSpread(LitExpr("Str", "a", 1), FALSE)),
              Some(ExprOrSpread(Ident("x", 1), FALSE)),
              Some(ExprOrSpread(Ident("y", 1), FALSE)),
              Some(ExprOrSpread(Ident("x", 1), TRUE))}, MaxLen)

PropLists ==
    SeqsUpTo({PropOf(Ident("a", 1)), PropOf(StrKey("b", 1)), SpreadProp}, MaxLen)

CompoundExprs ==
    {ParenExpr(e, 1) : e \in ExprCore}
        \cup {UnaryExpr(o, e, 1) : o \in {"!", "typeof", "void", "-"}, e \in LeafExprs}
        \cup {TsNonNullExpr(e, 1) : e \in LeafExprs}
        \cup {CondExpr(c, a, 1) : c \in ExprCore, a \in ExprCore}
        \cup {ArrayLit(es, 1) : es \in ElemLists}
        \cup {ObjectLit(ps, 1) : ps \in PropLists}
        \cup {SeqExpr(es, 1) : es \in SeqsUpTo(ExprCore, MaxLen)}
        \cup {MemberExpr(o, prop, c, 1) : o \in ExprCore, prop \in ExprCore, c \in BOOLEAN}
        \cup {AssignExpr(e, 1) : e \in ExprCore}
        \cup {BinExpr(o, l, r, 1) :
                o \in {"||", "&&", "+", "-", "===", "<", "*"},
                l \in {Ident("x", 1), AwaitExpr(1)}, r \in ExprCore}
        \cup {CallExpr(c, args, targs, 1) :
                c \in Callees, args \in ArgLists, targs \in TypeArgLists}
        \cup {NewExpr(c, args, targs, 1) :
                c \in Callees, args \in {None, Some(<<>>)}, targs \in TypeArgLists}

Exprs == LeafExprs \cup CompoundExprs

InitExpr ==
    /\ op = "none"
    /\ to = NoType
    /\ rhs = NoType
    /\ expr \in Exprs
    /\ scope \in Scopes
    /\ stmts = NoStmts
    /\ res = NoResult

\* type_of emptying the scope it was called in.
TypeOfForgettingScope ==
    /\ op = "none"
    /\ expr # NoExpr
    /\ res' = type_of(scope, expr)
    /\ op' = "type_of"
    /\ scope' = EmptyScope
    /\ UNCHANGED <<to, rhs, expr, stmts>>

\* Analyzer::type_of(expr) in the analyzer's scope.
TypeOf ==
    /\ op = "none"
    /\ expr # NoExpr
    /\ res' = type_of(scope, expr)
    /\ op' = "type_of"
    /\ UNCHANGED <<to, rhs, expr, scope, stmts>>

NextExpr == TypeOf

SpecExpr == InitExpr /\ [][NextExpr]_vars

(***************************************************************************)
(* generalize_lit as a state machine: the caller holds a type and          *)
(* generalizes it.                                                         *)
(***************************************************************************)
InitGeneralize ==
    /\ op = "none"
    /\ to = NoType
    /\ rhs \in {t \in Types : IsTsType(t)}
    /\ expr = NoExpr
    /\ scope = NoScope
    /\ stmts = NoStmts
    /\ res = NoResult

\* rhs.generalize_lit() of analyzer/util.rs.
GeneralizeLit ==
    /\ op = "none"
    /\ to = NoType
    /\ rhs # NoType
    /\ res' = OkT(generalize_lit(rhs))
    /\ op' = "generalize_lit"
    /\ UNCHANGED <<to, rhs, expr, scope, stmts>>

NextGeneralize == GeneralizeLit

SpecGeneralize == InitGeneralize /\ [][NextGeneralize]_vars

(***************************************************************************)
(* optimization/simplify/dce/mod.rs: the Remover folding statements.  A    *)
(* statement is a record whose tag names the variant of Stmt.  An          *)
(* expression is known to the pass through as_bool and ignore_result only: *)
(* it is the record of its purity and of its boolean value ("true",        *)
(* "false" or "unknown"); ignore_result drops a pure expression and keeps  *)
(* an impure one.                                                          *)
(***************************************************************************)
EmptyStmt == [tag |-> "Empty"]

ControlStmt(k) == [tag |-> k]

ExprStmt(e) == [tag |-> "Expr", expr |-> e]

BlockStmt(ss) == [tag |-> "Block", stmts |-> ss]

IfStmt(test, cons, alt) == [tag |-> "If", test |-> test, cons |-> cons, alt |-> alt]

LabeledStmt(body) == [tag |-> "Labeled", body |-> body]

DebuggerStmt == [tag |-> "Debugger"]

DceExpr(pure, known) == [pure |-> pure, known |-> known]

ignore_result(e) == IF e.pure THEN None ELSE Some(e)

\* IsEmpty for an Option<Box<Stmt>>.
alt_is_empty(alt) == alt = None \/ alt[1].tag = "Empty"

RECURSIVE fold_stmt(_)
RECURSIVE fold_stmts(_)
RECURSIVE fold_stmts_from(_, _, _)

\* dce/mod.rs line 138: fold_children of a statement.
stmt_fold_children(s) ==
    CASE s.tag = "Block" -> BlockStmt(fold_stmts(s.stmts))
      [] s.tag = "If" ->
            IfStmt(s.test, fold_stmt(s.cons),
                   IF s.alt = None THEN None ELSE Some(fold_stmt(s.alt[1])))
      [] s.tag = "Labeled" -> LabeledStmt(fold_stmt(s.body))
      [] OTHER -> s

\* dce/mod.rs lines 136-387: Fold<Stmt> for Remover.
fold_stmt(stmt) ==
    LET s == stmt_fold_children(stmt)
    IN  CASE s.tag = "If" /\ s.cons.tag = "Empty" /\ s.alt = None ->
                IF ignore_result(s.test) # None THEN ExprStmt(ignore_result(s.test)[1])
                ELSE EmptyStmt
          [] s.tag = "If" /\ ~(s.cons.tag = "Empty" /\ s.alt = None) ->
                IF alt_is_empty(s.alt) THEN IfStmt(s.test, s.cons, None) ELSE s
          [] s.tag = "Labeled" -> IF s.body.tag = "Empty" THEN EmptyStmt ELSE s
          [] s.tag = "Expr" ->
                IF ignore_result(s.expr) # None THEN ExprStmt(ignore_result(s.expr)[1])
                ELSE EmptyStmt
          [] s.tag = "Block" ->
                CASE Len(s.stmts) = 0 -> EmptyStmt
                  [] Len(s.stmts) = 1 -> s.stmts[1]
                  [] OTHER -> s
          [] OTHER -> s

IsControl(s) == s.tag \in {"Throw", "Return", "Continue", "Break"}

\* dce/mod.rs lines 69-102: an if statement in a list.
fold_if_in_list(buf, s) ==
    IF s.test.known = "unknown" THEN Append(buf, s)
    ELSE LET b == IF ~s.test.pure /\ ignore_result(s.test) # None
                  THEN Append(buf, ExprStmt(ignore_result(s.test)[1]))
                  ELSE buf
             node == IF s.test.known = "true" THEN s.cons
                     ELSE IF s.alt = None THEN EmptyStmt ELSE s.alt[1]
         IN  Append(b, node)

\* dce/mod.rs lines 46-131: the loop of Fold<Vec<T>> from the i-th statement
\* on, buf holding the output so far.
fold_stmts_from(ss, i, buf) ==
    IF i > Len(ss) THEN buf
    ELSE LET s == fold_stmt(ss[i])
         IN  CASE s.tag = "Empty" -> fold_stmts_from(ss, i + 1, buf)
               [] IsControl(s) -> Append(buf, s)
               [] s.tag = "Block" -> fold_stmts_from(ss, i + 1, buf \o s.stmts)
               [] s.tag = "If" -> fold_stmts_from(ss, i + 1, fold_if_in_list(buf, s))
               [] OTHER -> fold_stmts_from(ss, i + 1, Append(buf, s))

\* dce/mod.rs lines 36-134: Fold<Vec<T>> for Remover.
fold_stmts(ss) == fold_stmts_from(ss, 1, <<>>)

(***************************************************************************)
(* The inputs of the dead-code pass: lists of at most MaxStmts statements  *)
(* over a few statements of every kind the list folder looks at.           *)
(***************************************************************************)
SideEffect == ExprStmt(DceExpr(FALSE, "unknown"))

DceTests == {DceExpr(TRUE, "true"), DceExpr(FALSE, "false"), DceExpr(FALSE, "unknown")}

StmtCore ==
    {EmptyStmt, ControlStmt("Return"), ControlStmt("Break"), ControlStmt("Throw"),
     ControlStmt("Continue"), SideEffect, ExprStmt(DceExpr(TRUE, "unknown")), DebuggerStmt,
     BlockStmt(<<>>), BlockStmt(<<ControlStmt("Return")>>),
     BlockStmt(<<SideEffect, ControlStmt("Return")>>),
     BlockStmt(<<SideEffect, DebuggerStmt>>),
     BlockStmt(<<ControlStmt("Break"), SideEffect>>),
     BlockStmt(<<BlockStmt(<<SideEffect, ControlStmt("Throw")>>), DebuggerStmt>>),
     LabeledStmt(EmptyStmt), LabeledStmt(SideEffect)}
        \cup {IfStmt(t, ControlStmt("Return"), None) : t \in DceTests}
        \cup {IfStmt(DceExpr(FALSE, "false"), SideEffect, Some(ControlStmt("Throw"))),
              IfStmt(DceExpr(FALSE, "unknown"), EmptyStmt, None),
              IfStmt(DceExpr(FALSE, "unknown"), SideEffect, Some(EmptyStmt))}

StmtLists == UNION {[1..k -> StmtCore] : k \in 0..MaxStmts}

(***************************************************************************)
(* The dead-code pass as a state machine: the caller holds a statement     *)
(* list and folds it.                                                      *)
(***************************************************************************)
InitDce ==
    /\ op = "none"
    /\ to = NoType
    /\ rhs = NoType
    /\ expr = NoExpr
    /\ scope = NoScope
    /\ stmts \in StmtLists
    /\ res = NoResult

\* Remover::fold(stmts).
Dce ==
    /\ op = "none"
    /\ to = NoType
    /\ rhs = NoType
    /\ expr = NoExpr
    /\ res' = [kind |-> "Stmts", stmts |-> fold_stmts(stmts)]
    /\ op' = "dce"
    /\ UNCHANGED <<to, rhs, expr, scope, stmts>>

NextDce == Dce

SpecDce == InitDce /\ [][NextDce]_vars

Init == InitAssign \/ InitExpr \/ InitGeneralize \/ InitDce

Next == AssignTo \/ TsAssignTo \/ TypeOf \/ GeneralizeLit \/ Dce

Spec == Init /\ [][Next]_vars

(***************************************************************************)
(* Properties.  A call succeeds when its result is Ok; it aborts when its  *)
(* result is a Panic.  Assignable and TsAssignable are the two             *)
(* implementations of assign(to, from) asked about a pair other than the   *)
(* one of the state.                                                       *)
(***************************************************************************)
Assignable(t, r) == IsOk(try_assign(t, r, DUMMY_SP))

TsAssignable(t, r) == IsOk(ts_try_assign(t, r))

Returned == IsOk(res) \/ IsErr(res)

IsUnsupported == IsErr(res) /\ res.err.kind = "Unsupported"

\* rhs is decided by the rules that look at the source first.
SourceDecided(r) ==
    \/ is_keyword(r, "any")
    \/ is_keyword(r, "unknown")
    \/ r.tag \in {"Union", "Param"}

\* No rule of try_assign decides the pair, so that its last lines do.
Undecided(t, r) ==
    /\ ~to_any_or_unknown(t)
    /\ dispatch_rhs(t, r, DUMMY_SP) = NoDecision
    /\ dispatch_to(t, r, DUMMY_SP) = NoDecision

TsUndecided(t, r) ==
    /\ ts_dispatch_rhs(t, r) = NoDecision
    /\ ts_dispatch_to(t, r) = NoDecision

\* The shapes of expression type_of has no rule for.
UnhandledShape(e) ==
    \/ e.tag \in {"EAwait", "EArrow", "EYield", "EMetaProp", "EOther"}
    \/ e.tag = "EArray" /\ \E i \in DOMAIN e.elems :
                                e.elems[i] # None /\ e.elems[i][1].spread
    \/ e.tag = "EObject" /\ \E i \in DOMAIN e.props : e.props[i].spread

\* C1: type_of returns Ok(type) or Err(error) for every expression, and an
\* Unsupported error for every shape it does not handle; it never aborts.
C1_TypeOfNeverAborts ==
    op = "type_of" =>
        /\ Returned
        /\ UnhandledShape(expr) => IsUnsupported

\* C2: assign returns a result for every pair of types; when no rule decides
\* the pair it succeeds if to equals from ignoring names and spans and returns
\* an Unsupported error otherwise.
C2_FallbackReturns ==
    /\ op = "assign_to" =>
        /\ Returned
        /\ Undecided(to, rhs) =>
              IF eq_ignore_name_and_span(to, rhs) THEN IsOk(res) ELSE IsUnsupported
    /\ op = "ts_assign_to" =>
        /\ Returned
        /\ TsUndecided(to, rhs) =>
              IF eq_ignore_name_and_span(to, rhs) THEN IsOk(res) ELSE IsUnsupported

\* C3: reflexivity: assign(to = T, from = T) succeeds for every type T other
\* than ThisType.
C3_Reflexive ==
    (op = "assign_to" /\ to = rhs /\ to.tag # "This") => IsOk(res)

C5_SourceUnion ==
    /\ (op = "assign_to" /\ rhs.tag = "Union") =>
          (IsOk(res) <=> \A i \in DOMAIN rhs.types : Assignable(to, rhs.types[i]))
    /\ (op = "ts_assign_to" /\ rhs.tag = "Union") =>
          (IsOk(res) <=> \A i \in DOMAIN rhs.types : TsAssignable(to, rhs.types[i]))

\* A union of two different types is rejected although its first member alone
\* would be accepted.
C5_Witness ==
    /\ op = "assign_to"
    /\ rhs.tag = "Union"
    /\ Len(rhs.types) = 2
    /\ ~to_any_or_unknown(to)
    /\ Assignable(to, rhs.types[1])
    /\ ~Assignable(to, rhs.types[2])
    /\ IsErr(res)

\* C6: assign(to, from) succeeds for every from whenever to is the keyword
\* any or the keyword unknown.
C6_ToAnyOrUnknown ==
    (op \in {"assign_to", "ts_assign_to"}
        /\ (is_keyword(to, "any") \/ is_keyword(to, "unknown"))) => IsOk(res)

\* unknown accepts the this type.
C6_Witness ==
    /\ op = "assign_to"
    /\ is_keyword(to, "unknown")
    /\ rhs.tag = "This"
    /\ IsOk(res)

\* C7: assign(to = T, from = any) succeeds for every target type T.
C7_FromAny ==
    (op \in {"assign_to", "ts_assign_to"} /\ is_keyword(rhs, "any")) => IsOk(res)

\* any is assigned to the this type, which accepts nothing else.
C7_Witness ==
    /\ op = "assign_to"
    /\ to.tag = "This"
    /\ is_keyword(rhs, "any")
    /\ IsOk(res)

\* C8 as stated: assign(to = T, from = unknown) succeeds only when T is the
\* keyword any or the keyword undefined, and returns an error for every
\* other T.
C8_FromUnknownAnyOrUndefined ==
    (op \in {"assign_to", "ts_assign_to"} /\ is_keyword(rhs, "unknown")) =>
        IF is_keyword(to, "any") \/ is_keyword(to, "undefined")
        THEN Returned
        ELSE IsErr(res)

\* C8: assign(to = T, from = unknown) succeeds only when T is the keyword
\* any, unknown or undefined, and returns an AssignFailed error for every
\* other T; ty/assign.rs succeeds for each of the three.
C8_FromUnknown ==
    (op \in {"assign_to", "ts_assign_to"} /\ is_keyword(rhs, "unknown")) =>
        IF \E k \in {"any", "unknown", "undefined"} : is_keyword(to, k)
        THEN /\ Returned
             /\ op = "assign_to" => IsOk(res)
        ELSE IsErr(res) /\ res.err.kind = "AssignFailed"

\* unknown is assigned to unknown, and accepted.
C8_Witness ==
    /\ op = "assign_to"
    /\ is_keyword(rhs, "unknown")
    /\ is_keyword(to, "unknown")
    /\ IsOk(res)

\* C9: with to = Array<T> and from not decided by the rules for any, unknown,
\* Union and TypeParam, assign succeeds if and only if from is Array<S> with
\* assign(T, S) succeeding or from is a Tuple with assign(T, Si) succeeding for
\* every member Si.
C9_ArrayTarget ==
    /\ (op = "assign_to" /\ to.tag = "Array" /\ ~SourceDecided(rhs)) =>
          (IsOk(res) <=>
              \/ rhs.tag = "Array" /\ Assignable(to.elem_type, rhs.elem_type)
              \/ rhs.tag = "Tuple"
                    /\ \A i \in DOMAIN rhs.types : Assignable(to.elem_type, rhs.types[i]))
    /\ (op = "ts_assign_to" /\ to.tag = "Array" /\ ~SourceDecided(rhs)) =>
          (IsOk(res) <=>
              \/ rhs.tag = "Array" /\ TsAssignable(to.elem_type, rhs.elem_type)
              \/ rhs.tag = "Tuple"
                    /\ \A i \in DOMAIN rhs.types : TsAssignable(to.elem_type, rhs.types[i]))

\* C10: with to = Tuple(T1..Tn), assign succeeds if and only if from is a
\* Tuple of the same length n and, at every position i, assign(Ti, Si)
\* succeeds or Si is the keyword undefined.
C10_TupleTarget ==
    (op = "assign_to" /\ to.tag = "Tuple" /\ ~SourceDecided(rhs)) =>
        (IsOk(res) <=>
            /\ rhs.tag = "Tuple"
            /\ Len(rhs.types) = Len(to.types)
            /\ \A i \in DOMAIN to.types :
                    \/ Assignable(to.types[i], rhs.types[i])
                    \/ is_keyword(rhs.types[i], "undefined"))

\* The error a call of assign_to failed with: assign_to wraps every error
\* other than an AssignFailed as the cause of one.
InnerError(r) ==
    IF r.err.kind = "AssignFailed" /\ r.err.cause # <<>> THEN r.err.cause[1] ELSE r.err

\* Member m of to has a counterpart among rms: a member with the same key
\* when m has a key, a structurally equal member otherwise.
HasCounterpart(m, rms) ==
    IF HasKey(m)
    THEN \E j \in DOMAIN rms : HasKey(rms[j]) /\ eq_ignore_span(rms[j].key, m.key)
    ELSE \E j \in DOMAIN rms : eq_ignore_name_and_span(rms[j], m)

WithoutCounterpart(ms, rms) == SelectSeq(ms, LAMBDA m : ~HasCounterpart(m, rms))

\* C11: when to and from are type literals and some member of to has no
\* counterpart in from, assign fails with MissingFields whose fields are
\* exactly the members of to without a counterpart, in to's member order.
C11_MissingFields ==
    (op \in {"assign_to", "ts_assign_to"} /\ to.tag = "TypeLit" /\ rhs.tag = "TypeLit"
        /\ WithoutCounterpart(to.members, rhs.members) # <<>>) =>
        /\ IsErr(res)
        /\ InnerError(res).kind = "MissingFields"
        /\ InnerError(res).fields = WithoutCounterpart(to.members, rhs.members)

\* The truthiness of a boolean, number or string literal.
Truthy(l) ==
    CASE l.kind = "Bool" -> l.value = "true"
      [] l.kind = "Number" -> l.value # "0"
      [] l.kind = "Str" -> l.value # ""

\* C12: type_of(!x) is negate(type_of(x)): for a boolean, number or string
\* literal type the boolean literal that negates the literal's truthiness,
\* for every other type the keyword boolean.
C12_Negate ==
    (op = "type_of" /\ expr.tag = "EUnary" /\ expr.op = "!"
        /\ IsOk(type_of(scope, expr.arg))) =>
        LET t == type_of(scope, expr.arg).ty
        IN  /\ IsOk(res)
            /\ IF t.tag = "Lit"
               THEN /\ res.ty.tag = "Lit"
                    /\ res.ty.lit.kind = "Bool"
                    /\ res.ty.lit.value = (IF Truthy(t.lit) THEN "false" ELSE "true")
               ELSE is_keyword(res.ty, "boolean")

RECURSIVE remove_falsy_reference(_)

\* The reference function of remove_falsy: undefined, null and the literal
\* false become never; a union keeps the branch results that are not never;
\* an intersection with a never branch result is never.
remove_falsy_reference(ty) ==
    LET branches == [i \in DOMAIN ty.types |-> remove_falsy_reference(ty.types[i])]
    IN  CASE is_keyword(ty, "undefined") \/ is_keyword(ty, "null") -> never_ty(ty.span)
          [] ty.tag = "Lit" /\ ty.lit.kind = "Bool" /\ ty.lit.value = "false" ->
                never_ty(ty.span)
          [] ty.tag = "Union" ->
                [ty EXCEPT !.types = SelectSeq(branches, LAMBDA b : ~is_keyword(b, "never"))]
          [] ty.tag = "Intersection" ->
                IF \E i \in DOMAIN branches : is_keyword(branches[i], "never")
                THEN never_ty(ty.span)
                ELSE [ty EXCEPT !.types = branches]
          [] OTHER -> ty

\* C13: the type of the non-null assertion x! is the reference remove_falsy
\* of the type of x.
C13_RemoveFalsy ==
    (op = "type_of" /\ expr.tag = "ETsNonNull" /\ IsOk(type_of(scope, expr.expr))) =>
        /\ IsOk(res)
        /\ eq_ignore_span(res.ty, remove_falsy_reference(type_of(scope, expr.expr).ty))

\* The type of the callee of a call or new expression: the type of the
\* object for a member callee is looked at by CalleeObjectIsAny.
CalleeIs(k) ==
    /\ expr.callee.tag # "EMember"
    /\ ~(expr.callee.tag = "Ident" /\ expr.callee.sym = "require")
    /\ IsOk(type_of(scope, expr.callee))
    /\ is_keyword(type_of(scope, expr.callee).ty, k)

CalleeObjectIsAny ==
    /\ expr.callee.tag = "EMember"
    /\ IsOk(type_of(scope, expr.callee.obj))
    /\ is_keyword(type_of(scope, expr.callee.obj).ty, "any")

\* C14: a call or a new expression whose callee has the type any, be it a
\* plain callee (f(...), new f(...)) or a member of an object of type any
\* (o.m(...)), has the type any, whatever its arguments.
C14_AnyCallee ==
    (op = "type_of" /\ expr.tag \in {"ECall", "ENew"}
        /\ (CalleeIs("any") \/ CalleeObjectIsAny)) =>
        (IsOk(res) /\ is_keyword(res.ty, "any"))

\* The arguments of a call or new expression (a new expression may have none).
CallArgs == IF expr.tag = "ENew" THEN ann_or(expr.args, <<>>) ELSE expr.args

\* The signatures among which a call or new expression chooses: the methods
\* named like the invoked member for a member callee whose object is a type
\* literal, the call or construct signatures of the callee's type literal
\* otherwise.
SignaturesOfKind ==
    LET kindtag == IF expr.tag = "ECall" THEN "Call" ELSE "Construct"
    IN  IF expr.callee.tag = "EMember"
        THEN IF /\ expr.tag = "ECall"
                /\ IsOk(type_of(scope, expr.callee.obj))
                /\ type_of(scope, expr.callee.obj).ty.tag = "TypeLit"
             THEN SelectSeq(type_of(scope, expr.callee.obj).ty.members,
                            LAMBDA m : m.tag = "Method" /\ m.key.tag = "Ident"
                                       /\ m.key.sym = expr.callee.prop.sym)
             ELSE <<>>
        ELSE IF /\ ~(expr.callee.tag = "Ident" /\ expr.callee.sym = "require")
                /\ IsOk(type_of(scope, expr.callee))
                /\ type_of(scope, expr.callee).ty.tag = "TypeLit"
             THEN SelectSeq(type_of(scope, expr.callee).ty.members,
                            LAMBDA m : m.tag = kindtag)
             ELSE <<>>

SameCount == SelectSeq(SignaturesOfKind, LAMBDA m : Len(m.params) = Len(CallArgs))

\* C15: when the callee's object type has several signatures of the requested
\* kind, the one whose parameter count equals the number of arguments is
\* selected only if it is the only one with that count; when none or several
\* have that count the result is an Unsupported error.
C15_UniqueCandidate ==
    (op = "type_of" /\ expr.tag \in {"ECall", "ENew"} /\ Len(SignaturesOfKind) >= 2) =>
        IF Len(SameCount) = 1
        THEN IsOk(res) /\ res.ty = ann_or(SameCount[1].ret, any(expr.callee.span))
        ELSE IsUnsupported

\* The callee of the call or new expression is a function type (for a call)
\* or a constructor type (for a new expression): its signature is
\* instantiated directly.
CalleeSignature ==
    IF /\ expr.callee.tag # "EMember"
       /\ ~(expr.callee.tag = "Ident" /\ expr.callee.sym = "require")
       /\ IsOk(type_of(scope, expr.callee))
       /\ \/ (expr.tag = "ECall" /\ type_of(scope, expr.callee).ty.tag = "Function")
          \/ (expr.tag = "ENew" /\ type_of(scope, expr.callee).ty.tag = "Constructor")
    THEN Some(type_of(scope, expr.callee).ty)
    ELSE None

OptLen(o) == IF o = None THEN 0 ELSE Len(o[1])

\* C16: instantiating a signature succeeds, with the declared return type
\* unchanged, exactly when there are no more type arguments than type
\* parameters and no more parameters than arguments; it fails with
\* WrongTypeParams when the first condition is violated, and otherwise with
\* WrongParams when the second one is.
C16_TryInstantiate ==
    (op = "type_of" /\ expr.tag \in {"ECall", "ENew"} /\ CalleeSignature # None) =>
        LET sig == CalleeSignature[1]
        IN  IF OptLen(expr.type_args) > OptLen(sig.type_params)
            THEN IsErr(res) /\ res.err.kind = "WrongTypeParams"
            ELSE IF Len(sig.params) > Len(CallArgs)
            THEN IsErr(res) /\ res.err.kind = "WrongParams"
            ELSE res = OkT(sig.ret_ty)

C16_Witness ==
    /\ op = "type_of" /\ expr.tag = "ECall" /\ CalleeSignature # None
    /\ OptLen(expr.type_args) = 1 /\ OptLen(CalleeSignature[1].type_params) = 1
    /\ Len(CalleeSignature[1].params) <= Len(CallArgs)
    /\ res = OkT(CalleeSignature[1].ret_ty)

\* C17: a call of the member m of an object whose type is a type literal with
\* exactly one method signature named m has that method's declared return
\* type: {foo(x: number): string}.foo(1) has the type string.
C17_SingleMethod ==
    (op = "type_of" /\ expr.tag = "ECall" /\ expr.callee.tag = "EMember"
        /\ Len(SignaturesOfKind) = 1 /\ SignaturesOfKind[1].ret # None) =>
        res = OkT(SignaturesOfKind[1].ret[1])

C17_Witness ==
    /\ op = "type_of" /\ expr.tag = "ECall"
    /\ expr.callee = MemberExpr(Ident("o", 1), Ident("foo", 2), FALSE, 1)
    /\ scope = GlobalScope
    /\ Len(CallArgs) = 1
    /\ Len(SignaturesOfKind) = 1
    /\ res = OkT(K("string"))

\* C18: an identifier has the type of the scope's variable of that name, else
\* the type recorded for the import of that name, else the built-in default
\* of that name; when there is none of the three the result is
\* Err(UndefinedSymbol).  (Names of type declarations and require are left
\* aside.)
C18_IdentOrder ==
    (op = "type_of" /\ expr.tag = "Ident" /\ expr.sym # "require"
        /\ find_type(scope, expr.sym) = None) =>
        LET var == find_var_type(scope, expr.sym)
            imp == Lookup(scope.imports, expr.sym)
        IN  IF var # None THEN res = OkT(var[1])
            ELSE IF imp # None /\ imp[1].ty # None THEN res = OkT(imp[1].ty[1])
            ELSE IF default(expr.sym) # None THEN res = OkT(default(expr.sym)[1])
            ELSE IsErr(res) /\ res.err.kind = "UndefinedSymbol"

\* C19: the type of a conditional a ? b : c is the type of b when it equals
\* the type of c ignoring spans, and otherwise the two-member union of the
\* type of b and the type of c, in that order, with literal types kept as
\* they are: cond ? 1 : "a" has the type Union(Literal(1), Literal("a")).
C19_Conditional ==
    (op = "type_of" /\ expr.tag = "ECond"
        /\ IsOk(type_of(scope, expr.cons)) /\ IsOk(type_of(scope, expr.alt))) =>
        LET b == type_of(scope, expr.cons).ty
            c == type_of(scope, expr.alt).ty
        IN  IF eq_ignore_span(b, c) THEN res = OkT(b)
            ELSE IsOk(res) /\ res.ty.tag = "Union" /\ res.ty.types = <<b, c>>

C19_Witness ==
    /\ op = "type_of" /\ expr.tag = "ECond"
    /\ expr.cons = LitExpr("Num", "1", 1) /\ expr.alt = LitExpr("Str", "a", 1)
    /\ IsOk(res)
    /\ res.ty.tag = "Union"
    /\ res.ty.types = <<Lit("Number", "1", 1), Lit("Str", "a", 1)>>

\* C20: generalize_lit maps a boolean, number or string literal type to the
\* keyword boolean, number or string, returns every other type unchanged
\* (arrays and unions of literals included), and is idempotent.
C20_GeneralizeLit ==
    (op = "generalize_lit") =>
        /\ IsOk(res)
        /\ rhs.tag = "Lit" =>
                is_keyword(res.ty, CASE rhs.lit.kind = "Bool" -> "boolean"
                                     [] rhs.lit.kind = "Number" -> "number"
                                     [] rhs.lit.kind = "Str" -> "string")
        /\ rhs.tag # "Lit" => res.ty = rhs
        /\ generalize_lit(res.ty) = res.ty

C20_Witness ==
    /\ op = "generalize_lit"
    /\ rhs = Lit("Str", "a", 1)
    /\ res = OkT(K("string"))

IsPlain(t) ==
    /\ t.tag \in {"Keyword", "Lit"}
    /\ ~is_keyword(t, "any")
    /\ ~is_keyword(t, "unknown")

\* The verdict of the implementation that was called on a pair of branches.
Rejects(t, r) ==
    IF op = "assign_to" THEN IsErr(try_assign(t, r, DUMMY_SP)) ELSE IsErr(ts_try_assign(t, r))

\* The branches of the composite type of the pair (to, rhs) that are rejected.
RejectedBranches ==
    CASE rhs.tag = "Union" /\ IsPlain(to) ->
            {i \in DOMAIN rhs.types : Rejects(to, rhs.types[i])}
      [] to.tag \in {"Union", "Intersection"} /\ IsPlain(rhs) ->
            {i \in DOMAIN to.types : Rejects(to.types[i], rhs)}
      [] OTHER -> {}

\* The reasons an error tree holds for the branches of its root.
Reasons(e) ==
    CASE e.kind = "UnionError" -> e.errors
      [] e.kind = "IntersectionError" -> <<e.error>>
      [] OTHER -> <<>>

\* C22: when assign rejects on a composite type (from is a Union, to is a
\* Union, or to is an Intersection), the error it returns holds one reason
\* for every branch that was rejected, not only for the first one.
C22_EveryReason ==
    (op \in {"assign_to", "ts_assign_to"} /\ IsErr(res)
        /\ \/ (rhs.tag = "Union" /\ IsPlain(to))
           \/ (to.tag \in {"Union", "Intersection"} /\ IsPlain(rhs))) =>
        Len(Reasons(InnerError(res))) = Cardinality(RejectedBranches)

\* The outcome of assign(to = t, from = the constraint of rhs).
ConstraintOutcome(t) == try_assign(t, rhs.constraint[1], DUMMY_SP).kind

IsEmptyTypeLit(t) == t.tag = "TypeLit" /\ t.members = <<>>

\* C23 as stated: when from is a TypeParam and to is neither any nor unknown,
\* assign(to, from) has the outcome of assign(to, constraint) if the parameter
\* has a constraint, and succeeds only if to is a type literal without
\* members if it has none.
C23_TypeParamAnyTarget ==
    (op = "assign_to" /\ rhs.tag = "Param"
        /\ ~is_keyword(to, "any") /\ ~is_keyword(to, "unknown")) =>
        IF rhs.constraint # None THEN res.kind = ConstraintOutcome(to)
        ELSE IsOk(res) => IsEmptyTypeLit(to)

\* C23, amended: the same, for a target that is not the TypeParam of the same
\* name; assigning a TypeParam to the TypeParam of the same name succeeds,
\* whatever the constraint.  Without a constraint the call fails with
\* AssignFailed for every target that is not a type literal without members.
C23_TypeParam ==
    (op = "assign_to" /\ rhs.tag = "Param"
        /\ ~is_keyword(to, "any") /\ ~is_keyword(to, "unknown")) =>
        IF to.tag = "Param" /\ to.name = rhs.name THEN IsOk(res)
        ELSE IF rhs.constraint # None THEN res.kind = ConstraintOutcome(to)
        ELSE IF IsEmptyTypeLit(to) THEN IsOk(res)
        ELSE IsErr(res) /\ res.err.kind = "AssignFailed"

C23_Witness ==
    /\ op = "assign_to"
    /\ rhs = Param("T", Some(K("number")), 1)
    /\ to = K("number")
    /\ IsOk(res)

\* The members of an Interface or a TypeLiteral.
MembersOf(t) == IF t.tag = "Interface" THEN t.body ELSE t.members

\* Every pair of properties of the same key is assignable, a missing
\* annotation counting as any.
PropertiesAssignable(ms, rms) ==
    \A i \in DOMAIN ms : \A j \in DOMAIN rms :
        (/\ ms[i].tag = "Property" /\ rms[j].tag = "Property"
         /\ eq_ignore_span(ms[i].key, rms[j].key)) =>
            Assignable(type_ann_or_any(ms[i], DUMMY_SP), type_ann_or_any(rms[j], DUMMY_SP))

\* C24: with to an Interface or a TypeLiteral and from a TypeLiteral, assign
\* succeeds if and only if every member of to has a counterpart in from and
\* every matched pair of properties is assignable (a missing annotation
\* counting as any); when from is a Tuple, an Array or a Literal, assign fails.
C24_TypeLit ==
    (op = "assign_to" /\ to.tag \in {"Interface", "TypeLit"}) =>
        /\ rhs.tag = "TypeLit" =>
                (IsOk(res) <=>
                    /\ WithoutCounterpart(MembersOf(to), rhs.members) = <<>>
                    /\ PropertiesAssignable(MembersOf(to), rhs.members))
        /\ rhs.tag \in {"Tuple", "Array", "Lit"} => IsErr(res)

\* The elements of the array literal all have a type.
ElementsTyped ==
    \A i \in DOMAIN expr.elems :
        \/ expr.elems[i] = None
        \/ (~expr.elems[i][1].spread /\ IsOk(type_of(scope, expr.elems[i][1].expr)))

\* The literal-widened type of the i-th element (undefined for a hole).
WidenedElement(i) ==
    IF expr.elems[i] = None THEN undefined(expr.span)
    ELSE generalize_lit(type_of(scope, expr.elems[i][1].expr).ty)

RECURSIVE DedupIgnoringSpan(_)
\* ts without the members equal, ignoring spans, to an earlier one.
DedupIgnoringSpan(ts) ==
    IF ts = <<>> THEN <<>>
    ELSE LET d == DedupIgnoringSpan(SubSeq(ts, 1, Len(ts) - 1))
             last == ts[Len(ts)]
         IN  IF \E k \in DOMAIN d : eq_ignore_span(d[k], last) THEN d ELSE Append(d, last)

ElementCandidates == DedupIgnoringSpan([i \in DOMAIN expr.elems |-> WidenedElement(i)])

\* C25: the type of an array literal is Array<E>, with E built from the
\* literal-widened element types de-duplicated by eq_ignore_span in
\* first-occurrence order: any when there is none, the candidate when there
\* is one, else their Union, whose branches are pairwise distinct ignoring
\* spans, number at least two and are not literal types.
C25_ArrayLiteral ==
    (op = "type_of" /\ expr.tag = "EArray" /\ ElementsTyped) =>
        /\ IsOk(res)
        /\ res.ty.tag = "Array"
        /\ LET c == ElementCandidates
               E == res.ty.elem_type
           IN  CASE Len(c) = 0 -> is_keyword(E, "any")
                 [] Len(c) = 1 -> E = c[1]
                 [] OTHER ->
                      /\ E.tag = "Union"
                      /\ E.types = c
                      /\ Len(E.types) >= 2
                      /\ \A i \in DOMAIN E.types : E.types[i].tag # "Lit"
                      /\ \A i, j \in DOMAIN E.types :
                            i # j => ~eq_ignore_span(E.types[i], E.types[j])

C25_Witness ==
    /\ op = "type_of" /\ expr.tag = "EArray"
    /\ Len(expr.elems) = 2
    /\ ElementsTyped
    /\ IsOk(res)
    /\ res.ty.elem_type.tag = "Union"
    /\ res.ty.elem_type.types = <<K("number"), K("string")>>

(***************************************************************************)
(* The recursion of try_assign and of type_of: the pairs, and the          *)
(* expressions, a call hands directly to a recursive call.                 *)
(***************************************************************************)
\* The same-key pairs of properties of two member lists, as the pairs of
\* their types (a missing annotation is any).
property_pairs(ms, rms) ==
    {<<type_ann_or_any(ms[i], DUMMY_SP), type_ann_or_any(rms[j], DUMMY_SP)>> :
        <<i, j>> \in {q \in (DOMAIN ms) \X (DOMAIN rms) :
                        /\ ms[q[1]].tag = "Property" /\ rms[q[2]].tag = "Property"
                        /\ ms[q[1]].key = rms[q[2]].key}}

\* The recursive calls of assign_calls' Union arm made on the pair itself.
assign_calls_whole_pair(t, r) ==
    IF t.tag = "Union" /\ r.tag # "Union" THEN {<<t, r>>} ELSE {}

\* ty/assign.rs lines 137-477: the recursive calls of try_assign(t, r).
assign_calls(t, r) ==
    IF is_keyword(t, "any") \/ is_keyword(t, "unknown") THEN {}
    ELSE IF r.tag = "Union" THEN {<<t, r.types[i]>> : i \in DOMAIN r.types}
    ELSE IF is_keyword(r, "any") \/ is_keyword(r, "unknown") THEN {}
    ELSE IF r.tag = "Param"
    THEN IF t.tag = "Param" /\ t.name = r.name THEN {}
         ELSE IF r.constraint # None THEN {<<t, r.constraint[1]>>}
         ELSE {}
    ELSE IF t.tag = "Array"
    THEN IF r.tag = "Array" THEN {<<t.elem_type, r.elem_type>>}
         ELSE IF r.tag = "Tuple" THEN {<<t.elem_type, r.types[i]>> : i \in DOMAIN r.types}
         ELSE {}
    ELSE IF t.tag \in {"Union", "Intersection"}
    THEN {<<t.types[i], r>> : i \in DOMAIN t.types}
    ELSE IF t.tag = "Interface" /\ r.tag = "TypeLit" THEN property_pairs(t.body, r.members)
    ELSE IF t.tag = "TypeLit" /\ r.tag = "TypeLit" THEN property_pairs(t.members, r.members)
    ELSE IF /\ t.tag = "Function" /\ t.type_params = None
            /\ r.tag = "Function" /\ r.type_params = None
    THEN {<<t.ret_ty, r.ret_ty>>}
    ELSE IF t.tag = "Tuple" /\ r.tag = "Tuple"
    THEN {<<t.types[i], r.types[i]>> : i \in (DOMAIN t.types) \cap (DOMAIN r.types)}
    ELSE {}

\* expr.rs lines 14-337 and 510-629: the recursive calls of type_of(e).
type_of_calls(e) ==
    CASE e.tag = "EArray" ->
            {e.elems[i][1].expr : i \in {k \in DOMAIN e.elems :
                                            e.elems[k] # None /\ ~e.elems[k][1].spread}}
      [] e.tag \in {"EParen", "ETsNonNull"} -> {e.expr}
      [] e.tag = "EUnary" -> IF e.op = "!" THEN {e.arg} ELSE {}
      [] e.tag = "ECond" -> {e.cons, e.alt}
      [] e.tag \in {"ENew", "ECall"} ->
            IF e.callee.tag = "Ident" /\ e.callee.sym = "require" THEN {}
            ELSE IF e.callee.tag = "EMember" THEN {e.callee.obj}
            ELSE {e.callee}
      [] e.tag = "ESeq" -> IF Len(e.exprs) >= 1 THEN {e.exprs[Len(e.exprs)]} ELSE {}
      [] e.tag = "EClass" ->
            {e.body[i].value[1] : i \in {k \in DOMAIN e.body :
                                            /\ e.body[k].tag = "ClassProp"
                                            /\ e.body[k].type_ann = None
                                            /\ e.body[k].value # None}}
      [] e.tag = "EFn" ->
            IF e.return_type = None /\ e.body # None
            THEN {e.returns[i][1] : i \in {k \in DOMAIN e.returns : e.returns[k] # None}}
            ELSE {}
      [] e.tag = "EMember" -> IF e.computed THEN {e.obj, e.prop} ELSE {e.obj}
      [] e.tag = "EAssign" -> {e.right}
      [] e.tag = "EBin" -> IF e.op \in {"||", "&&"} THEN {e.right} ELSE {}
      [] OTHER -> {}

\* The greatest member of a finite, non-empty set of numbers.
MaxOf(S) == CHOOSE m \in S : \A x \in S : x <= m

\* The direct sub-terms of a type; the any that stands for a missing
\* annotation of a property counts as one.
SubTypes(t) ==
    CASE t.tag = "Array" -> {t.elem_type}
      [] t.tag \in {"Tuple", "Union", "Intersection"} -> {t.types[i] : i \in DOMAIN t.types}
      [] t.tag = "Param" -> {t.constraint[i] : i \in DOMAIN t.constraint}
      [] t.tag \in {"Function", "Constructor"} -> {t.ret_ty}
      [] t.tag \in {"TypeLit", "Interface"} ->
            {IF MembersOf(t)[i].tag = "Property"
             THEN type_ann_or_any(MembersOf(t)[i], DUMMY_SP)
             ELSE ann_or(MembersOf(t)[i].ret, any(DUMMY_SP)) : i \in DOMAIN MembersOf(t)}
      [] OTHER -> {}

\* The direct sub-expressions of an expression.
SubExprs(e) ==
    CASE e.tag = "EArray" -> {e.elems[i][1].expr : i \in {k \in DOMAIN e.elems : e.elems[k] # None}}
      [] e.tag \in {"EParen", "ETsNonNull"} -> {e.expr}
      [] e.tag = "EUnary" -> {e.arg}
      [] e.tag = "ECond" -> {e.cons, e.alt}
      [] e.tag = "ECall" -> {e.callee} \cup {e.args[i].expr : i \in DOMAIN e.args}
      [] e.tag = "ENew" ->
            {e.callee} \cup {ann_or(e.args, <<>>)[i].expr : i \in DOMAIN ann_or(e.args, <<>>)}
      [] e.tag = "ESeq" -> {e.exprs[i] : i \in DOMAIN e.exprs}
      [] e.tag = "EClass" ->
            {e.body[i].value[1] : i \in {k \in DOMAIN e.body :
                                            /\ e.body[k].tag = "ClassProp"
                                            /\ e.body[k].value # None}}
      [] e.tag = "EFn" -> {e.returns[i][1] : i \in {k \in DOMAIN e.returns : e.returns[k] # None}}
      [] e.tag = "EMember" -> {e.obj, e.prop}
      [] e.tag = "EAssign" -> {e.right}
      [] e.tag = "EBin" -> {e.left, e.right}
      [] OTHER -> {}

RECURSIVE TypeDepth(_)
TypeDepth(t) == 1 + MaxOf({0} \cup {TypeDepth(c) : c \in SubTypes(t)})

RECURSIVE ExprDepth(_)
ExprDepth(e) == 1 + MaxOf({0} \cup {ExprDepth(c) : c \in SubExprs(e)})

RECURSIVE StrictSubExprs(_)
StrictSubExprs(e) == SubExprs(e) \cup UNION {StrictSubExprs(c) : c \in SubExprs(e)}

RECURSIVE AssignDescends(_, _)
\* Every recursive call below try_assign(t, r) is made on a pair that keeps
\* one side and replaces the other by a direct sub-term, or replaces both.
AssignDescends(t, r) ==
    \A p \in assign_calls(t, r) :
        /\ p[1] \in {t} \cup SubTypes(t)
        /\ p[2] \in {r} \cup SubTypes(r)
        /\ p[1] \in SubTypes(t) \/ p[2] \in SubTypes(r)
        /\ p # <<t, r>>
        /\ AssignDescends(p[1], p[2])

RECURSIVE TypeOfDescends(_)
TypeOfDescends(e) ==
    \A c \in type_of_calls(e) : c \in StrictSubExprs(e) /\ TypeOfDescends(c)

RECURSIVE AssignCallDepth(_, _)
AssignCallDepth(t, r) ==
    1 + MaxOf({0} \cup {AssignCallDepth(p[1], p[2]) : p \in assign_calls(t, r)})

RECURSIVE TypeOfCallDepth(_)
TypeOfCallDepth(e) == 1 + MaxOf({0} \cup {TypeOfCallDepth(c) : c \in type_of_calls(e)})

InnerCheck ==
    IF op = "assign_to" THEN try_assign(to, rhs, CHOOSE span \in CallSpans : TRUE)
    ELSE ts_try_assign(to, rhs)

\* C27: every error returned by assign_to is an AssignFailed at its root: an
\* AssignFailed of the inner check is returned unchanged, an error of any
\* other kind is the single cause of a new AssignFailed whose left and right
\* are the original to and from.
C27_AssignFailedRoot ==
    (op \in {"assign_to", "ts_assign_to"} /\ IsErr(res)) =>
        /\ res.err.kind = "AssignFailed"
        /\ IsErr(InnerCheck)
        /\ IF InnerCheck.err.kind = "AssignFailed" THEN res = InnerCheck
           ELSE /\ res.err.cause = <<InnerCheck.err>>
                /\ res.err.left = to
                /\ res.err.right = rhs

C27_Witness ==
    /\ op = "assign_to" /\ IsErr(res)
    /\ InnerCheck.err.kind = "MissingFields"
    /\ res.err.kind = "AssignFailed"
    /\ res.err.cause = <<InnerCheck.err>>

RECURSIVE IsSharedShape(_)
\* A type built only from keywords, literals, arrays, unions and
\* intersections.
IsSharedShape(t) ==
    CASE t.tag \in {"Keyword", "Lit"} -> TRUE
      [] t.tag = "Array" -> IsSharedShape(t.elem_type)
      [] t.tag \in {"Union", "Intersection"} ->
            \A i \in DOMAIN t.types : IsSharedShape(t.types[i])
      [] OTHER -> FALSE

\* C28: the two implementations of assignability (try_assign of ty/assign.rs
\* and try_assign of analyzer/util.rs) accept the same pairs and reject the
\* same pairs among the types built only from keywords, literals, arrays,
\* unions and intersections.
C28_SameVerdict ==
    (op \in {"assign_to", "ts_assign_to"} /\ IsSharedShape(to) /\ IsSharedShape(rhs)) =>
        LET other == IF op = "assign_to" THEN ts_assign_to(rhs, to)
                     ELSE assign_to(rhs, to, DUMMY_SP)
        IN  /\ IsOk(res) <=> IsOk(other)
            /\ IsErr(res) <=> IsErr(other)

\* C29: when a signature is rejected because it declares more parameters than
\* there are arguments, the WrongParams error reports as actual the number of
\* arguments supplied and as expected the range from 0 to the number of
\* declared parameters.
C29_WrongParamsActual ==
    (op = "type_of" /\ expr.tag \in {"ECall", "ENew"} /\ CalleeSignature # None
        /\ IsErr(res) /\ res.err.kind = "WrongParams") =>
        /\ res.err.actual = Len(CallArgs)
        /\ res.err.expected = <<0, Len(CalleeSignature[1].params)>>

\* C30: the statement list returned by the dead-code pass holds no statement
\* after a return, throw, break or continue that stands directly in it: such
\* a statement, if there is one, is the last of the list, also when it came
\* into the list from a nested block.
C30_NothingAfterControl ==
    (op = "dce") =>
        \A i \in DOMAIN res.stmts : IsControl(res.stmts[i]) => i = Len(res.stmts)

====
